---------------------------- MODULE Spec2Model ----------------------------
(***************************************************************************)
(* A model of the remote-mining engine of TI6 (analysis of JavaScript      *)
(* repositories): the request layer of app/scripts/github_api.py, the      *)
(* dependency-diff extractor and the mining orchestrator of                *)
(* app/scripts/find_dependency_replacements.py.                            *)
(*                                                                         *)
(* One specification per function shares the module.  SpecReq is one call *)
(* of request_with_backoff against an arbitrary server.  SpecParse applies *)
(* parse_removed_added_from_patch, and the per-patch loop of analyze_repo  *)
(* that forms the dependency changes, to bounded patch texts.  SpecRepo is *)
(* one call of analyze_repo against an arbitrary remote repository,        *)
(* SpecMetrics two calls of compute_metrics_from_commit for one commit,    *)
(* SpecMining one call of stage_mining_aggregate (main.py), SpecBatch the  *)
(* worker threads of get_metrics_batch (app/scripts/metrics.py),           *)
(* SpecGraphql one call of graphql_fetch_package_json_batch and SpecHeur   *)
(* one call of analyze_contents (app/scripts/compute_js_metrics.py).  The  *)
(* variables of the parts a specification does not use keep their initial  *)
(* values.                                                                 *)
(***************************************************************************)
EXTENDS Integers, Sequences, FiniteSets, TLC

VARIABLES
    \* ---- request_with_backoff (github_api.py) ----
    rpc,          \* position: "test" | "request" | "backoff" | "returned" | "raised" | "off"
    max_retries,  \* the call's max_retries argument
    attempt,      \* the local attempt
    resp,         \* what s.request produced in the current iteration
    last_exc,     \* the local last_exc
    slept,        \* the time.sleep call _sleep_backoff made in the current iteration
    counts,       \* observed effects: HTTP attempts, sleeps, responses below 400
    outcome,      \* what the call handed to its caller
    \* ---- parse_removed_added_from_patch (find_dependency_replacements.py) ----
    ppc,          \* position: "patch" | "parsed" | "formed" | "off"
    patch_text,   \* the argument patch_text, a sequence of symbols
    fname,        \* the filename of the patched file
    removed,      \* the dict removed, in insertion order
    added,        \* the dict added, in insertion order
    changes,      \* the entries analyze_repo appends to removed_list for the file
    \* ---- analyze_repo (find_dependency_replacements.py) ----
    apc,          \* position: "list" | "filter" | "limit" | "loop" | "detail" | "extract"
                  \*   | "before" | "after" | "records" | "done" | "off"
    args,         \* max_candidates_per_repo, days_back, limit_commits, include_pkg_snapshots
    commits,      \* the local commits
    ci,           \* the place of c in commits (0 before the loop)
    parents,      \* the local parents of c; parent_sha is its first element
    detail,       \* the local detail
    removed_list, \* the local removed_list
    metrics,      \* the locals metrics_before and metrics_after, and which call raised
    ri,           \* the place of r in removed_list
    results,      \* the local results
    cache,        \* the local cache (the vulnerability cache)
    disk,         \* the content of the cache file osv_cache.json
    reqs,         \* requests made: commit details, metrics calls, vulnerability
                  \*   queries, manifest snapshots
    \* ---- compute_metrics_from_commit (find_dependency_replacements.py) ----
    mpc,          \* position: "start" | "fetch" | "returned" | "off"
    file_limit,   \* the argument file_limit
    have_lizard,  \* the module flag _HAVE_LIZARD
    tree_items,   \* what get_tree_for_ref answers for the commit
    blob_answers, \* what the remote answers for each blob sha asked so far
    candidates,   \* the local candidates
    idx,          \* the place of item in candidates
    fetched,      \* the get_blob_content calls of the current call, in order
    totals,       \* the locals total_loc, complexity_vals, processed_files
    snapshot,     \* the value the current call returned
    mcall,        \* 1 in the first call for the commit, 2 in the second
    first_snapshot, \* the value the first call returned
    \* ---- stage_mining_aggregate (main.py) ----
    spc,          \* position: "submit" | "collect" | "done" | "off"
    sargs,        \* the arguments workers and chunk_size
    repo_names,   \* the local repo_names, in the order of the deps file
    repo_lookups, \* per repository of repo_names, the names its analyze_repo looks up
    chunk_start,  \* the number of repositories in the chunks before the current one
    task,         \* per repository, its analyze_repo task: state, cache object,
                  \*   lookups done, candidates
    osv_file,     \* the cache file osv_cache.json shared by all tasks
    queried,      \* per dependency name, the vulnerability queries sent
    all_candidates, \* the local all_candidates
    \* ---- get_metrics_batch (metrics.py) ----
    bpc,          \* position: "run" | "returned" | "off"
    bworkers,     \* max_workers of the executor
    repo_deps,    \* per repository, the keys of deps_agg in order
    shared_cache, \* the local shared_cache, one dict for all worker threads
    proc,         \* per repository, its process(repo) task: state, lookups done,
                  \*   the values get_cve_for_package returned
    bresults,     \* the local results
    bfile,        \* the content of the cache file osv_cache.json
    \* ---- graphql_fetch_package_json_batch (github_api.py) ----
    gpc,          \* position: "block" | "returned" | "off"
    gnames,       \* the argument repo_full_names
    batch_size,   \* the argument batch_size
    gi,           \* the loop variable i
    gout,         \* the local out, in insertion order
    greply,       \* what the request of the last block brought
    gblocks,      \* the blocks request_with_backoff was called for, in order
    \* ---- analyze_contents (compute_js_metrics.py) ----
    hpc,          \* position: "files" | "returned" | "off"
    contents,     \* the argument contents: the source of each file
    hi,           \* the number of files the loop has taken
    htotals,      \* the locals total_loc, total_functions, total_complexity_contrib
    hresult       \* the dict returned

varsReq == <<rpc, max_retries, attempt, resp, last_exc, slept, counts, outcome>>
varsParse == <<ppc, patch_text, fname, removed, added, changes>>
varsRepo == <<apc, args, commits, ci, parents, detail, removed_list, metrics, ri,
              results, cache, disk, reqs>>
varsMetrics == <<mpc, file_limit, have_lizard, tree_items, blob_answers, candidates,
                 idx, fetched, totals, snapshot, mcall, first_snapshot>>
varsMining == <<spc, sargs, repo_names, repo_lookups, chunk_start, task, osv_file, queried,
                all_candidates>>
varsBatch == <<bpc, bworkers, repo_deps, shared_cache, proc, bresults, bfile>>
varsGraphql == <<gpc, gnames, batch_size, gi, gout, greply, gblocks>>
varsHeur == <<hpc, contents, hi, htotals, hresult>>
vars == <<varsReq, varsParse, varsRepo, varsMetrics, varsMining, varsBatch, varsGraphql,
          varsHeur>>

\* What a step of one function leaves alone: the state of the others.
otherThanReq ==
    <<varsParse, varsRepo, varsMetrics, varsMining, varsBatch, varsGraphql, varsHeur>>
otherThanParse ==
    <<varsReq, varsRepo, varsMetrics, varsMining, varsBatch, varsGraphql, varsHeur>>
otherThanRepo ==
    <<varsReq, varsParse, varsMetrics, varsMining, varsBatch, varsGraphql, varsHeur>>
otherThanMetrics ==
    <<varsReq, varsParse, varsRepo, varsMining, varsBatch, varsGraphql, varsHeur>>
otherThanMining ==
    <<varsReq, varsParse, varsRepo, varsMetrics, varsBatch, varsGraphql, varsHeur>>
otherThanBatch ==
    <<varsReq, varsParse, varsRepo, varsMetrics, varsMining, varsGraphql, varsHeur>>
otherThanGraphql ==
    <<varsReq, varsParse, varsRepo, varsMetrics, varsMining, varsBatch, varsHeur>>
otherThanHeur ==
    <<varsReq, varsParse, varsRepo, varsMetrics, varsMining, varsBatch, varsGraphql>>

-----------------------------------------------------------------------------
(***************************************************************************)
(* Bounds of the model and constants of the program.                       *)
(***************************************************************************)
\* Retry-After values range over -2 .. MaxRetryAfter.
MaxRetryAfter == 5
\* X-RateLimit-Reset epochs range over 0 .. MaxReset.
MaxReset == 1
\* int(time.time()) ranges over 0 .. MaxNow.
MaxNow == 4

\* A patch text has at most MaxLines lines.
MaxLines == 3
\* The commit listing of a repository has at most MaxCommits commits.
MaxCommits == 2
\* A commit's tree has at most MaxTree entries.
MaxTree == 3
\* file_limit ranges over 0 .. MaxFileLimit; 0 is "no limit".
MaxFileLimit == 2
\* A mining run has at most MaxRepos repositories.
MaxRepos == 2
\* The most repositories given to one get_metrics_batch call.
MaxBatchRepos == 3
\* The longest list of repository names given to the batched manifest fetch.
MaxNames == 3
\* The largest batch_size of the batched manifest fetch.
MaxBatch == 2
\* The largest number of files given to the keyword heuristic.
MaxFiles == 3

\* def request_with_backoff(..., max_retries=6)
DefaultMaxRetries == 6
\* base = min(60, 2 ** attempt)
BackoffCap == 60
\* if resp.status_code < 400: return resp
ErrorFloor == 400

-----------------------------------------------------------------------------
(***************************************************************************)
(* Values.                                                                 *)
(***************************************************************************)
\* A header value is a string or absent.  k = "none": the header is absent;
\* "empty": the empty string; "text": a string int() rejects (an HTTP date);
\* "int": the decimal string of v.
NoHdr == [k |-> "none", v |-> 0]
EmptyHdr == [k |-> "empty", v |-> 0]
TextHdr == [k |-> "text", v |-> 0]
IntHdr(n) == [k |-> "int", v |-> n]

\* Python truthiness of resp.headers.get(...): None and "" are falsy.
Truthy(h) == h.k \notin {"none", "empty"}

RetryAfterValues ==
    {NoHdr, EmptyHdr, TextHdr} \cup {IntHdr(n) : n \in (0 - 2)..MaxRetryAfter}
RemainingValues == {NoHdr} \cup {IntHdr(n) : n \in 0..1}
ResetValues == {NoHdr, TextHdr} \cup {IntHdr(n) : n \in 0..MaxReset}

\* The statuses a server answers with: success, the retryable set, and
\* other 4xx and 5xx.
Statuses == {200, 304, 404, 500, 429, 403, 502, 503, 504}
RetryableStatuses == {429, 403, 502, 503, 504}

NoResp == [kind |-> "none", status |-> 0, retry_after |-> NoHdr,
           remaining |-> NoHdr, reset |-> NoHdr]
\* s.request raised a requests.RequestException (connection error, timeout).
NetFailure == [kind |-> "neterr", status |-> 0, retry_after |-> NoHdr,
               remaining |-> NoHdr, reset |-> NoHdr]
Responses ==
    [kind : {"response"}, status : Statuses, retry_after : RetryAfterValues,
     remaining : RemainingValues, reset : ResetValues]

\* Exceptions.  "at" is the attempt that created the object (its identity).
\*   "status":  Exception(f"{resp.status_code} Client Error: {resp.text} ...")
\*   "http":    requests.HTTPError raised by resp.raise_for_status()
\*   "net":     the RequestException s.request raised
\*   "runtime": RuntimeError("request_with_backoff: exhausted retries.")
NoExc == [kind |-> "none", status |-> 0, at |-> 0]
StatusExc(r, a) == [kind |-> "status", status |-> r.status, at |-> a]
HttpExc(r, a) == [kind |-> "http", status |-> r.status, at |-> a]
NetExc(a) == [kind |-> "net", status |-> 0, at |-> a]
RuntimeExc == [kind |-> "runtime", status |-> 0, at |-> 0]

\* random.uniform(0.5, 2.0), in tenths of a second.
Jitters == {5, 12, 20}

NoSleep == [rule |-> "none", secs |-> 0, tenths |-> 0, now |-> 0]

Max(a, b) == IF a >= b THEN a ELSE b
Min(a, b) == IF a <= b THEN a ELSE b

RECURSIVE Pow2(_)
Pow2(n) == IF n = 0 THEN 1 ELSE 2 * Pow2(n - 1)

-----------------------------------------------------------------------------
(***************************************************************************)
(* _sleep_backoff(attempt, resp): the time.sleep call it ends with.        *)
(* r is NoResp when the caller passes resp=None.  time.sleep raises        *)
(* ValueError on a negative length; inside the try that falls through to   *)
(* the next rule.                                                          *)
(***************************************************************************)
RetryAfterApplies(r) ==
    /\ r.kind = "response"
    /\ Truthy(r.retry_after)
    /\ r.retry_after.k = "int"
    /\ r.retry_after.v + 1 >= 0

RateLimitApplies(r) ==
    /\ r.kind = "response"
    /\ r.remaining = IntHdr(0)
    /\ Truthy(r.reset)
    /\ r.reset.k = "int"

\* A plausible slip: the rate-limit rule sleeps until the reset epoch,
\* without the two seconds of margin.
sleep_backoff_no_margin(a, r, now, jitter) ==
    IF RetryAfterApplies(r)
    THEN [rule |-> "retry_after", secs |-> r.retry_after.v + 1, tenths |-> 0, now |-> 0]
    ELSE IF RateLimitApplies(r)
    THEN [rule |-> "reset", secs |-> Max(0, r.reset.v - now), tenths |-> 0, now |-> now]
    ELSE [rule |-> "exp", secs |-> Min(BackoffCap, Pow2(a)), tenths |-> jitter, now |-> 0]

\* A plausible slip: the exponential base without its cap.
sleep_backoff_uncapped(a, r, now, jitter) ==
    IF RetryAfterApplies(r)
    THEN [rule |-> "retry_after", secs |-> r.retry_after.v + 1, tenths |-> 0, now |-> 0]
    ELSE IF RateLimitApplies(r)
    THEN [rule |-> "reset", secs |-> Max(0, r.reset.v - now + 2), tenths |-> 0, now |-> now]
    ELSE [rule |-> "exp", secs |-> Pow2(a), tenths |-> jitter, now |-> 0]

\* A plausible slip: the rate-limit rule tried before the Retry-After rule.
sleep_backoff_reset_first(a, r, now, jitter) ==
    IF RateLimitApplies(r)
    THEN [rule |-> "reset", secs |-> Max(0, r.reset.v - now + 2), tenths |-> 0, now |-> now]
    ELSE IF RetryAfterApplies(r)
    THEN [rule |-> "retry_after", secs |-> r.retry_after.v + 1, tenths |-> 0, now |-> 0]
    ELSE [rule |-> "exp", secs |-> Min(BackoffCap, Pow2(a)), tenths |-> jitter, now |-> 0]

sleep_backoff(a, r, now, jitter) ==
    IF RetryAfterApplies(r)
    THEN [rule |-> "retry_after", secs |-> r.retry_after.v + 1, tenths |-> 0, now |-> 0]
    ELSE IF RateLimitApplies(r)
    THEN [rule |-> "reset", secs |-> Max(0, r.reset.v - now + 2), tenths |-> 0, now |-> now]
    ELSE [rule |-> "exp", secs |-> Min(BackoffCap, Pow2(a)), tenths |-> jitter, now |-> 0]

-----------------------------------------------------------------------------
(***************************************************************************)
(* request_with_backoff.                                                   *)
(***************************************************************************)
IsRetryable(r) == r.kind = "response" /\ r.status \in RetryableStatuses

\* if resp.status_code < 400: return resp
IsSuccess(r) == r.kind = "response" /\ r.status < ErrorFloor

\* A plausible slip: one attempt too many.
MayRetry_inclusive(a, m) == a <= m

\* while attempt < max_retries
MayRetry(a, m) == a < m

\* A plausible slip: the retryable branch forgets to record its error.
ExcAfterBackoff_stale(r, a, prev) == prev

\* last_exc after the backoff of attempt a: the retryable branch assigns the
\* status error after its sleep; the except clause assigned e before it.
ExcAfterBackoff(r, a, prev) == IF IsRetryable(r) THEN StatusExc(r, a) ELSE prev

ReqStart ==
    /\ rpc = "test"
    /\ max_retries \in 0..DefaultMaxRetries
    /\ attempt = 0
    /\ resp = NoResp
    /\ last_exc = NoExc
    /\ slept = NoSleep
    /\ counts = [http |-> 0, sleeps |-> 0, ok |-> 0]
    /\ outcome = [kind |-> "pending", resp |-> NoResp, exc |-> NoExc]

\* while attempt < max_retries: attempt += 1 ... ; after the loop: raise.
LoopTest ==
    /\ rpc = "test"
    /\ IF MayRetry(attempt, max_retries)
       THEN /\ attempt' = attempt + 1
            /\ rpc' = "request"
            /\ resp' = NoResp
            /\ slept' = NoSleep
            /\ UNCHANGED outcome
       ELSE /\ rpc' = "raised"
            /\ outcome' = [kind |-> "raised", resp |-> NoResp,
                           exc |-> IF last_exc # NoExc THEN last_exc ELSE RuntimeExc]
            /\ UNCHANGED <<attempt, resp, slept>>
    /\ UNCHANGED <<max_retries, last_exc, counts>>
    /\ UNCHANGED otherThanReq

\* The try block up to the sleep: s.request, the status tests and
\* raise_for_status, whose HTTPError is a RequestException and is caught by
\* the except clause of the same try.
SendRequest ==
    /\ rpc = "request"
    /\ \E r \in Responses \cup {NetFailure} :
        /\ resp' = r
        /\ counts' = [counts EXCEPT !.http = @ + 1,
                                    !.ok = @ + (IF IsSuccess(r) THEN 1 ELSE 0)]
        /\ IF IsSuccess(r)
           THEN /\ rpc' = "returned"
                /\ outcome' = [kind |-> "returned", resp |-> r, exc |-> NoExc]
                /\ UNCHANGED last_exc
           ELSE /\ rpc' = "backoff"
                /\ last_exc' = IF r.kind = "neterr" THEN NetExc(attempt)
                               ELSE IF IsRetryable(r) THEN last_exc
                               ELSE HttpExc(r, attempt)
                /\ UNCHANGED outcome
    /\ UNCHANGED <<max_retries, attempt, slept>>
    /\ UNCHANGED otherThanReq

\* Backoff with the sleep left out after the last allowed attempt.
Backoff_skips_final ==
    /\ rpc = "backoff"
    /\ IF attempt < max_retries
       THEN /\ \E now \in 0..MaxNow, jitter \in Jitters :
                slept' = sleep_backoff(attempt, IF IsRetryable(resp) THEN resp ELSE NoResp, now, jitter)
            /\ counts' = [counts EXCEPT !.sleeps = @ + 1]
       ELSE UNCHANGED <<slept, counts>>
    /\ last_exc' = ExcAfterBackoff(resp, attempt, last_exc)
    /\ rpc' = "test"
    /\ UNCHANGED <<max_retries, attempt, resp, outcome>>
    /\ UNCHANGED otherThanReq

\* _sleep_backoff(attempt, resp) for a retryable status, followed by the
\* assignment of last_exc; _sleep_backoff(attempt, None) in the except clause.
Backoff ==
    /\ rpc = "backoff"
    /\ \E now \in 0..MaxNow, jitter \in Jitters :
        slept' = sleep_backoff(attempt, IF IsRetryable(resp) THEN resp ELSE NoResp, now, jitter)
    /\ last_exc' = ExcAfterBackoff(resp, attempt, last_exc)
    /\ counts' = [counts EXCEPT !.sleeps = @ + 1]
    /\ rpc' = "test"
    /\ UNCHANGED <<max_retries, attempt, resp, outcome>>
    /\ UNCHANGED otherThanReq

ReqOff ==
    /\ rpc = "off"
    /\ max_retries = 0
    /\ attempt = 0
    /\ resp = NoResp
    /\ last_exc = NoExc
    /\ slept = NoSleep
    /\ counts = [http |-> 0, sleeps |-> 0, ok |-> 0]
    /\ outcome = [kind |-> "pending", resp |-> NoResp, exc |-> NoExc]

-----------------------------------------------------------------------------
(***************************************************************************)
(* Text.  A text is a sequence of symbols: the characters the pattern      *)
(* names (sign, white space, quote, colon), other punctuation, and words,  *)
(* each word standing for a run of characters that are none of these.      *)
(***************************************************************************)
Quote == "\""
Newline == "\n"
\* \s of Python's re: white space, the line break included.
IsSpace(c) == c \in {" ", "\t", Newline}

RECURSIVE SkipSpace(_, _)
\* \s* from position i: the first position that holds no white space.
SkipSpace(s, i) ==
    IF i <= Len(s) /\ IsSpace(s[i]) THEN SkipSpace(s, i + 1) ELSE i

RECURSIVE SkipNonQuote(_, _)
\* [^"]* from position i: the first position that holds a quote.
SkipNonQuote(s, i) ==
    IF i <= Len(s) /\ s[i] # Quote THEN SkipNonQuote(s, i + 1) ELSE i

\* ^ under re.MULTILINE: the start of the text or just after a line break.
AtLineStart(s, i) == i = 1 \/ s[i - 1] = Newline

NoMatch == [ok |-> FALSE, op |-> "", name |-> <<>>, ver |-> <<>>, end |-> 0]

\* _pkg_line_re matched at position i:
\*   ^[\-\+]\s*"(?P<name>[^"]+)":\s*"(?P<ver>[^"]+)"
\* Every quantifier is followed by a symbol outside its class, so the
\* greedy match is the only one.
MatchAt(s, i) ==
    IF ~(i <= Len(s) /\ AtLineStart(s, i) /\ s[i] \in {"-", "+"}) THEN NoMatch
    ELSE LET q1 == SkipSpace(s, i + 1)
             q2 == SkipNonQuote(s, q1 + 1)
             q3 == SkipSpace(s, q2 + 2)
             q4 == SkipNonQuote(s, q3 + 1)
         IN  IF /\ q1 <= Len(s) /\ s[q1] = Quote
                /\ q2 <= Len(s) /\ q2 > q1 + 1
                /\ q2 + 1 <= Len(s) /\ s[q2 + 1] = ":"
                /\ q3 <= Len(s) /\ s[q3] = Quote
                /\ q4 <= Len(s) /\ q4 > q3 + 1
             THEN [ok |-> TRUE, op |-> s[i], name |-> SubSeq(s, q1 + 1, q2 - 1),
                   ver |-> SubSeq(s, q3 + 1, q4 - 1), end |-> q4]
             ELSE NoMatch

\* A dict is the sequence of its <<key, value>> items in insertion order.
DictKeys(d) == {d[i][1] : i \in 1..Len(d)}
DictHas(d, k) == k \in DictKeys(d)
DictGet(d, k) == LET i == CHOOSE j \in 1..Len(d) : d[j][1] = k IN d[i][2]
\* d[k] = v: a present key keeps its place and takes the new value.
DictSet(d, k, v) ==
    IF DictHas(d, k)
    THEN [i \in 1..Len(d) |-> IF d[i][1] = k THEN <<k, v>> ELSE d[i]]
    ELSE Append(d, <<k, v>>)

RECURSIVE finditer(_, _, _)
\* for m in _pkg_line_re.finditer(patch_text): the loop of
\* parse_removed_added_from_patch from position pos on, maps[1] being
\* removed and maps[2] added.  The search resumes after the end of a match.
finditer(s, pos, maps) ==
    IF pos > Len(s) THEN maps
    ELSE LET m == MatchAt(s, pos)
         IN  IF ~m.ok THEN finditer(s, pos + 1, maps)
             ELSE finditer(s, m.end + 1,
                           IF m.op = "-"
                           THEN <<DictSet(maps[1], m.name, m.ver), maps[2]>>
                           ELSE <<maps[1], DictSet(maps[2], m.name, m.ver)>>)

\* parse_removed_added_from_patch(patch_text): <<removed, added>>.
parse_removed_added_from_patch(s) ==
    IF s = <<>> THEN <<(<<>>), (<<>>)>> ELSE finditer(s, 1, <<(<<>>), (<<>>)>>)

\* A plausible slip: versions_after read from the removed map.
ChangeFor_after_from_removed(f, item, added_map) ==
    [name |-> item[1],
     versions_before |-> IF item[2] # <<>> THEN <<item[2]>> ELSE <<>>,
     versions_after |-> <<item[2]>>,
     file |-> f]

\* The entry analyze_repo appends to removed_list for one item of
\* removed_map.items().
ChangeFor(f, item, added_map) ==
    [name |-> item[1],
     versions_before |-> IF item[2] # <<>> THEN <<item[2]>> ELSE <<>>,
     versions_after |-> IF DictHas(added_map, item[1])
                        THEN <<DictGet(added_map, item[1])>> ELSE <<>>,
     file |-> f]

\* for dep_name, ver_before in removed_map.items(): removed_list.append(...)
DependencyChanges(f, removed_map, added_map) ==
    [i \in 1..Len(removed_map) |-> ChangeFor(f, removed_map[i], added_map)]

(***************************************************************************)
(* Patch texts: up to MaxLines lines of a manifest diff, joined by line    *)
(* breaks.                                                                 *)
(***************************************************************************)
DepLine(sign, name, ver) ==
    <<sign, " ", " ", Quote, name, Quote, ":", " ", Quote, ver, Quote>>

PatchLines ==
    { DepLine("-", "lodash", "4.17.10"),
      DepLine("-", "lodash", "3.10.1"),
      DepLine("+", "lodash", "4.17.21") \o <<",">>,
      DepLine("-", "left-pad", "1.3.0") \o <<",">>,
      DepLine("+", "axios", "1.6.0"),
      DepLine(" ", "lodash", "4.17.10") \o <<",">>,   \* a context line
      <<"-">>,                                          \* a removed empty line
      <<"-", " ", " ", Quote, "dependencies", Quote, ":", " ", "{">> }

RECURSIVE JoinLines(_)
\* "\n".join(lines)
JoinLines(ls) ==
    IF ls = <<>> THEN <<>>
    ELSE IF Len(ls) = 1 THEN ls[1]
    ELSE ls[1] \o <<Newline>> \o JoinLines(Tail(ls))

PatchTexts ==
    {JoinLines(ls) : ls \in UNION {[1..n -> PatchLines] : n \in 0..MaxLines}}

ManifestNames == {<<"package.json">>}

ParseStart ==
    /\ ppc = "patch"
    /\ patch_text \in PatchTexts
    /\ fname \in ManifestNames
    /\ removed = <<>>
    /\ added = <<>>
    /\ changes = <<>>

ParseOff ==
    /\ ppc = "off"
    /\ patch_text = <<>>
    /\ fname = <<>>
    /\ removed = <<>>
    /\ added = <<>>
    /\ changes = <<>>

\* removed_map, added_map = parse_removed_added_from_patch(patch)
ParsePatch ==
    /\ ppc = "patch"
    /\ LET maps == parse_removed_added_from_patch(patch_text)
       IN  removed' = maps[1] /\ added' = maps[2]
    /\ ppc' = "parsed"
    /\ UNCHANGED <<patch_text, fname, changes>>
    /\ UNCHANGED otherThanParse

\* The loop of analyze_repo over removed_map.items() for this file.
FormChanges ==
    /\ ppc = "parsed"
    /\ changes' = DependencyChanges(fname, removed, added)
    /\ ppc' = "formed"
    /\ UNCHANGED <<patch_text, fname, removed, added>>
    /\ UNCHANGED otherThanParse

-----------------------------------------------------------------------------
(***************************************************************************)
(* analyze_repo: what the remote repository and the vulnerability service  *)
(* answer.                                                                 *)
(***************************************************************************)
\* datetime.utcnow(), in days.  Commits are dated at day 0 or day 1.
UtcNow == 2

\* The author date of a listed commit.  k = "missing": no date (None or "");
\* "garbage": a string fromisoformat rejects; "naive": an ISO date without a
\* zone; "aware": an ISO date with a zone, as in "2020-01-01T00:00:00Z".
Dates ==
    {[k |-> "missing", t |-> 0], [k |-> "garbage", t |-> 0], [k |-> "aware", t |-> 0]}
        \cup {[k |-> "naive", t |-> t] : t \in 0..(UtcNow - 1)}

\* cutoff_dt = datetime.utcnow() - timedelta(days=int(days_back)): naive.
Cutoff(days_back) == UtcNow - days_back

\* The body of the filter loop for one commit: kept without a date, kept
\* when fromisoformat raises, kept when cd >= cutoff_dt, and kept when that
\* comparison raises TypeError (cd has a zone, cutoff_dt has none).
KeepByDate(d, cutoff) ==
    IF d.k = "missing" THEN TRUE
    ELSE IF d.k = "garbage" THEN TRUE
    ELSE IF d.k = "aware" THEN TRUE
    ELSE d.t >= cutoff

\* filtered = [c for c in commits if ...]
FilterByDate(cs, cutoff) == SelectSeq(cs, LAMBDA c : KeepByDate(c.date, cutoff))

\* commits[:limit_commits]
Prefix(cs, n) == SubSeq(cs, 1, Min(n, Len(cs)))

\* c.get("parents", []): none, one, or two (a merge commit).
ParentLists == {<<>>, <<"p1">>, <<"p1", "p2">>}

\* A file name is a sequence of pieces: directory prefixes, which end in
\* "/", and pieces of the last component.
DirPrefixes == {"packages/core/", "app/templates/"}
\* str.lower() on a piece.
LowerPiece(x) == IF x = "Package.json" THEN "package.json" ELSE x

\* fname.lower().endswith("package.json")
IsManifestPath(f) == f # <<>> /\ LowerPiece(f[Len(f)]) = "package.json"

RootManifest == <<"package.json">>
NestedManifest == <<"packages/core/", "package.json">>
CapitalManifest == <<"Package.json">>
TemplateManifest == <<"app/templates/", "_", "package.json">>
Readme == <<"README.md">>

RemoveLodash == DepLine("-", "lodash", "4.17.10")
RemoveLeftPad == DepLine("-", "left-pad", "1.3.0") \o <<",">>
\* lodash upgraded and left-pad removed.
UpgradeAndRemove ==
    JoinLines(<<DepLine("-", "lodash", "4.17.10") \o <<",">>,
                DepLine("+", "lodash", "4.17.21") \o <<",">>,
                DepLine("-", "left-pad", "1.3.0")>>)
AddAxios == DepLine("+", "axios", "1.6.0")

FileEntry(f, p) == [filename |-> f, patch |-> p]

\* detail.get("files", []): the changed files of a commit with their patches.
FileLists ==
    { <<>>,
      <<FileEntry(RootManifest, RemoveLodash), FileEntry(NestedManifest, RemoveLeftPad)>>,
      <<FileEntry(Readme, RemoveLodash), FileEntry(RootManifest, UpgradeAndRemove)>>,
      <<FileEntry(RootManifest, AddAxios)>>,
      <<FileEntry(RootManifest, <<>>), FileEntry(CapitalManifest, RemoveLeftPad)>>,
      <<FileEntry(TemplateManifest, RemoveLeftPad)>>,
      <<FileEntry(Readme, RemoveLodash)>> }

NoDetail == [sha |-> 0, files |-> <<>>]

\* What compute_metrics_from_commit does when called for the parent and for
\* the commit: it raises, or it returns a snapshot.
ZeroEntry == [lines_of_code |-> 0, avg_complexity |-> 0]
SnapshotBefore == [lines_of_code |-> 120, avg_complexity |-> 3, files_processed |-> 4]
SnapshotAfter == [lines_of_code |-> 100, avg_complexity |-> 2, files_processed |-> 3]
NoMetrics == [before |-> ZeroEntry, after |-> ZeroEntry, raised |-> {}]

\* {"lines_of_code": m.get("lines_of_code", 0), "avg_complexity": m.get(...)}
Entry(m) == [lines_of_code |-> m.lines_of_code, avg_complexity |-> m.avg_complexity]

\* The vulnerability service: the query fails, or answers 200 with vulns.
OsvAnswers ==
    {[ok |-> FALSE, vulns |-> <<>>], [ok |-> TRUE, vulns |-> <<>>],
     [ok |-> TRUE, vulns |-> <<"GHSA-35jh">>]}

\* load_osv_cache(): the cache file is missing or holds earlier results.
CacheFiles ==
    {<<>>, << <<(<<"lodash">>), [count |-> 1, ids |-> <<"CVE-2019-10744">>]>> >>}

\* A plausible slip: the service asked without a look at the cache.
get_cve_for_package_always_queries(name, c, ans) ==
    LET v == IF ans.ok THEN [count |-> Len(ans.vulns), ids |-> ans.vulns]
             ELSE [count |-> 0, ids |-> <<>>]
    IN  [value |-> v, cache |-> DictSet(c, name, v), queried |-> TRUE]

\* get_cve_for_package(package_name, cache=cache) when the service answers
\* ans: the value returned, the cache afterwards, whether a query was made.
get_cve_for_package(name, c, ans) ==
    IF DictHas(c, name)
    THEN [value |-> DictGet(c, name), cache |-> c, queried |-> FALSE]
    ELSE LET v == IF ans.ok THEN [count |-> Len(ans.vulns), ids |-> ans.vulns]
                  ELSE [count |-> 0, ids |-> <<>>]
         IN  [value |-> v, cache |-> DictSet(c, name, v), queried |-> TRUE]

RECURSIVE RemovedListOf_first_file(_)
\* A plausible slip: the loop over files leaves after the first manifest.
RemovedListOf_first_file(files) ==
    IF files = <<>> THEN <<>>
    ELSE IF ~IsManifestPath(files[1].filename) THEN RemovedListOf_first_file(Tail(files))
    ELSE LET maps == parse_removed_added_from_patch(files[1].patch)
         IN  DependencyChanges(files[1].filename, maps[1], maps[2])

RECURSIVE RemovedListOf(_)
\* for f in files: ... removed_list.append(...): the entries of every file
\* whose name passes the manifest test, in file order.
RemovedListOf(files) ==
    IF files = <<>> THEN <<>>
    ELSE IF ~IsManifestPath(files[1].filename) THEN RemovedListOf(Tail(files))
    ELSE LET maps == parse_removed_added_from_patch(files[1].patch)
         IN  DependencyChanges(files[1].filename, maps[1], maps[2])
                 \o RemovedListOf(Tail(files))

\* A plausible slip: the cap tested one record too late.
CapReached_late(cap, n) == cap # 0 /\ n > cap

\* max_candidates_per_repo and len(results) >= max_candidates_per_repo
CapReached(cap, n) == cap # 0 /\ n >= cap

-----------------------------------------------------------------------------
(***************************************************************************)
(* analyze_repo.                                                           *)
(***************************************************************************)
RepoStart ==
    /\ apc = "list"
    /\ args \in [cap : 0..2, days_back : 0..1, limit_commits : 0..1,
                 include_pkg_snapshots : BOOLEAN]
    /\ commits = <<>>
    /\ ci = 0
    /\ parents = <<>>
    /\ detail = NoDetail
    /\ removed_list = <<>>
    /\ metrics = NoMetrics
    /\ ri = 0
    /\ results = <<>>
    /\ cache = <<>>
    /\ disk \in CacheFiles
    /\ reqs = [detail |-> 0, metrics |-> 0, osv |-> 0, pkg |-> 0]

RepoOff ==
    /\ apc = "off"
    /\ args = [cap |-> 0, days_back |-> 0, limit_commits |-> 0,
               include_pkg_snapshots |-> FALSE]
    /\ commits = <<>>
    /\ ci = 0
    /\ parents = <<>>
    /\ detail = NoDetail
    /\ removed_list = <<>>
    /\ metrics = NoMetrics
    /\ ri = 0
    /\ results = <<>>
    /\ cache = <<>>
    /\ disk = <<>>
    /\ reqs = [detail |-> 0, metrics |-> 0, osv |-> 0, pkg |-> 0]

\* commits = list_commits_touching_path(...); if not commits: return [].
\* The commits are numbered in listing order; the number stands for the sha.
ListCommits ==
    /\ apc = "list"
    /\ \E n \in 0..MaxCommits : \E ds \in [1..n -> Dates] :
        commits' = [i \in 1..n |-> [sha |-> i, date |-> ds[i]]]
    /\ apc' = IF commits' = <<>> THEN "done" ELSE "filter"
    /\ UNCHANGED <<args, ci, parents, detail, removed_list, metrics, ri, results,
                   cache, disk, reqs>>
    /\ UNCHANGED otherThanRepo

\* if days_back: ... commits = filtered
FilterCommits ==
    /\ apc = "filter"
    /\ commits' = IF args.days_back # 0
                  THEN FilterByDate(commits, Cutoff(args.days_back))
                  ELSE commits
    /\ apc' = "limit"
    /\ UNCHANGED <<args, ci, parents, detail, removed_list, metrics, ri, results,
                   cache, disk, reqs>>
    /\ UNCHANGED otherThanRepo

\* if limit_commits: commits = commits[:limit_commits]; results = [];
\* cache = load_osv_cache() or {}
LimitAndLoad ==
    /\ apc = "limit"
    /\ commits' = IF args.limit_commits # 0
                  THEN Prefix(commits, args.limit_commits)
                  ELSE commits
    /\ results' = <<>>
    /\ cache' = disk
    /\ apc' = "loop"
    /\ UNCHANGED <<args, ci, parents, detail, removed_list, metrics, ri, disk, reqs>>
    /\ UNCHANGED otherThanRepo

\* The head of the loop over commits, entered with the next commit: the cap
\* has room and the list has a commit left.  parents = c.get("parents", []);
\* if not parents: continue
NextCommit ==
    /\ apc = "loop"
    /\ ~CapReached(args.cap, Len(results))
    /\ ci < Len(commits)
    /\ ci' = ci + 1
    /\ \E ps \in ParentLists :
        /\ parents' = ps
        /\ apc' = IF ps = <<>> THEN "loop" ELSE "detail"
    /\ UNCHANGED <<args, commits, detail, removed_list, metrics, ri, results,
                   cache, disk, reqs>>
    /\ UNCHANGED otherThanRepo

\* detail = get_commit_detail(full_name, sha); if not detail: continue
FetchDetail ==
    /\ apc = "detail"
    /\ reqs' = [reqs EXCEPT !.detail = @ + 1]
    /\ \/ /\ detail' = NoDetail
          /\ apc' = "loop"
       \/ /\ \E fs \in FileLists : detail' = [sha |-> commits[ci].sha, files |-> fs]
          /\ apc' = "extract"
    /\ UNCHANGED <<args, commits, ci, parents, removed_list, metrics, ri, results,
                   cache, disk>>
    /\ UNCHANGED otherThanRepo

\* removed_list = []; for f in files: ...; if not removed_list: continue
ExtractDiff ==
    /\ apc = "extract"
    /\ removed_list' = RemovedListOf(detail.files)
    /\ apc' = IF removed_list' = <<>> THEN "loop" ELSE "before"
    /\ UNCHANGED <<args, commits, ci, parents, detail, metrics, ri, results,
                   cache, disk, reqs>>
    /\ UNCHANGED otherThanRepo

\* metrics_before = {zeros}; metrics_after = {zeros};
\* try: metrics_before = compute_metrics_from_commit(parent_sha) except: print
MetricsBefore ==
    /\ apc = "before"
    /\ reqs' = [reqs EXCEPT !.metrics = @ + 1]
    /\ \/ metrics' = [before |-> ZeroEntry, after |-> ZeroEntry, raised |-> {"before"}]
       \/ metrics' = [before |-> Entry(SnapshotBefore), after |-> ZeroEntry, raised |-> {}]
    /\ apc' = "after"
    /\ UNCHANGED <<args, commits, ci, parents, detail, removed_list, ri, results,
                   cache, disk>>
    /\ UNCHANGED otherThanRepo

\* A plausible slip: a failure of the second snapshot resets both.
MetricsAfter_zeroes_both ==
    /\ apc = "after"
    /\ reqs' = [reqs EXCEPT !.metrics = @ + 1]
    /\ \/ metrics' = [before |-> ZeroEntry, after |-> ZeroEntry,
                       raised |-> metrics.raised \cup {"after"}]
       \/ metrics' = [metrics EXCEPT !.after = Entry(SnapshotAfter)]
    /\ ri' = 1
    /\ apc' = "records"
    /\ UNCHANGED <<args, commits, ci, parents, detail, removed_list, results,
                   cache, disk>>
    /\ UNCHANGED otherThanRepo

\* try: metrics_after = compute_metrics_from_commit(sha) except: print
MetricsAfter ==
    /\ apc = "after"
    /\ reqs' = [reqs EXCEPT !.metrics = @ + 1]
    /\ \/ metrics' = [metrics EXCEPT !.raised = @ \cup {"after"}]
       \/ metrics' = [metrics EXCEPT !.after = Entry(SnapshotAfter)]
    /\ ri' = 1
    /\ apc' = "records"
    /\ UNCHANGED <<args, commits, ci, parents, detail, removed_list, results,
                   cache, disk>>
    /\ UNCHANGED otherThanRepo

\* A plausible slip: the last parent taken.
parent_sha_last(ps) == ps[Len(ps)]

\* parent_sha = parents[0].get("sha")
parent_sha(ps) == ps[1]

\* The candidate built for entry r with the vulnerability result v; has_pkg
\* tells whether it carries the pkg_before and pkg_after snapshots.
Candidate(r, v) ==
    [commit |-> commits[ci].sha,
     parent |-> parent_sha(parents),
     removed_dep |-> r.name,
     versions_before |-> r.versions_before,
     versions_after |-> r.versions_after,
     file |-> r.file,
     cve_count |-> v.count,
     cve_ids |-> v.ids,
     has_pkg |-> args.include_pkg_snapshots,
     metrics_before |-> metrics.before,
     metrics_after |-> metrics.after]

\* A plausible slip: the snapshots computed again for every entry of
\* removed_list.
EmitCandidate_recomputes ==
    /\ apc = "records"
    /\ \E ans \in OsvAnswers :
        LET r == removed_list[ri]
            g == get_cve_for_package(r.name, cache, ans)
        IN  /\ cache' = g.cache
            /\ results' = Append(results, Candidate(r, g.value))
            /\ reqs' = [reqs EXCEPT !.metrics = @ + 2,
                                    !.osv = @ + (IF g.queried THEN 1 ELSE 0),
                                    !.pkg = @ + (IF args.include_pkg_snapshots THEN 2 ELSE 0)]
    /\ IF CapReached(args.cap, Len(results')) \/ ri = Len(removed_list)
       THEN apc' = "loop" /\ UNCHANGED ri
       ELSE apc' = "records" /\ ri' = ri + 1
    /\ UNCHANGED <<args, commits, ci, parents, detail, removed_list, metrics, disk>>
    /\ UNCHANGED otherThanRepo

\* One turn of the loop over removed_list: the vulnerability lookup, the
\* candidate, the manifest snapshots if asked for, the append and the cap
\* test that leaves the loop.
EmitCandidate ==
    /\ apc = "records"
    /\ \E ans \in OsvAnswers :
        LET r == removed_list[ri]
            g == get_cve_for_package(r.name, cache, ans)
        IN  /\ cache' = g.cache
            /\ results' = Append(results, Candidate(r, g.value))
            /\ reqs' = [reqs EXCEPT !.osv = @ + (IF g.queried THEN 1 ELSE 0),
                                    !.pkg = @ + (IF args.include_pkg_snapshots THEN 2 ELSE 0)]
    /\ IF CapReached(args.cap, Len(results')) \/ ri = Len(removed_list)
       THEN apc' = "loop" /\ UNCHANGED ri
       ELSE apc' = "records" /\ ri' = ri + 1
    /\ UNCHANGED <<args, commits, ci, parents, detail, removed_list, metrics, disk>>
    /\ UNCHANGED otherThanRepo

\* The head of the loop over commits, left: the cap is reached (break) or
\* the list is exhausted.  save_osv_cache(cache), which writes the file or
\* fails silently; return results.  The locals of the call end with it; the
\* results, the cache object and the cache file remain.
SaveAndReturn ==
    /\ apc = "loop"
    /\ CapReached(args.cap, Len(results)) \/ ci = Len(commits)
    /\ disk' \in {cache, disk}
    /\ apc' = "done"
    /\ commits' = <<>>
    /\ ci' = 0
    /\ parents' = <<>>
    /\ detail' = NoDetail
    /\ removed_list' = <<>>
    /\ metrics' = NoMetrics
    /\ ri' = 0
    /\ UNCHANGED <<args, results, cache, reqs>>
    /\ UNCHANGED otherThanRepo

-----------------------------------------------------------------------------
(***************************************************************************)
(* compute_metrics_from_commit: the remote tree and blobs.                 *)
(***************************************************************************)
\* SRC_EXTS
SRC_EXTS == {".js", ".jsx", ".ts", ".tsx", ".mjs", ".cjs"}
\* SKIP_PATH_PARTS
SKIP_PATH_PARTS ==
    {"node_modules/", "bower_components/", "dist/", "build/", "vendor/", ".git/"}
\* MAX_BLOB_BYTES = 1024 * 1024
MAX_BLOB_BYTES == 1048576

\* str.lower() on the last piece of a path; a path is a sequence of pieces,
\* directories ending in "/", then the stem and the suffix of the file name.
LowerSuffix(x) == IF x = ".TS" THEN ".ts" ELSE x

\* path.lower().endswith(SRC_EXTS)
HasSourceSuffix(path) == path # <<>> /\ LowerSuffix(path[Len(path)]) \in SRC_EXTS

\* any(p in path for p in SKIP_PATH_PARTS)
InSkippedPath(path) == \E i \in 1..Len(path) : path[i] \in SKIP_PATH_PARTS

\* A plausible slip: the test of the exclusion substrings left out.
Qualifies_any_path(item) ==
    /\ item.type = "blob"
    /\ HasSourceSuffix(item.path)
    /\ ~(item.size # 0 /\ item.size > MAX_BLOB_BYTES)

\* A plausible slip: the size test left out.
Qualifies_any_size(item) ==
    /\ item.type = "blob"
    /\ HasSourceSuffix(item.path)
    /\ ~InSkippedPath(item.path)

\* The body of the filter loop: the item is appended to candidates.  A
\* missing size is 0: size = item.get("size") or 0.
Qualifies(item) ==
    /\ item.type = "blob"
    /\ HasSourceSuffix(item.path)
    /\ ~InSkippedPath(item.path)
    /\ ~(item.size # 0 /\ item.size > MAX_BLOB_BYTES)

TreeItem(t, p, sz, sha) == [type |-> t, path |-> p, size |-> sz, sha |-> sha]

\* The entries a tree is made of.
ItemPool ==
    { TreeItem("blob", <<"src/", "index", ".js">>, 100, "b1"),
      TreeItem("blob", <<"lib/", "util", ".TS">>, 0, "b2"),
      TreeItem("blob", <<"src/", "app", ".jsx">>, MAX_BLOB_BYTES, "b3"),
      TreeItem("blob", <<"node_modules/", "dep", ".js">>, 100, "b4"),
      TreeItem("blob", <<"src/", "bundle", ".js">>, MAX_BLOB_BYTES + 1, "b5"),
      TreeItem("blob", <<"README", ".md">>, 100, "b6"),
      TreeItem("tree", <<"src">>, 0, "t1") }

\* The answers of get_tree_for_ref: a list of at most MaxTree distinct
\* entries; the empty list also stands for a failed request.
Trees ==
    UNION { { t \in [1..n -> ItemPool] : \A i, j \in 1..n : i # j => t[i] # t[j] }
            : n \in 0..MaxTree }

\* The text of a blob: its lines, blank or not, and the scores lizard gives
\* its functions (cyclomatic complexity, at least 1).
TextA == [lines |-> <<"code", "blank", "code">>, scores |-> <<1>>]
TextB == [lines |-> <<"code">>, scores |-> <<2, 2>>]
NoText == [lines |-> <<>>, scores |-> <<>>]

\* What the remote answers to a blob request: no answer (the request
\* raises), a status other than 200, a body without base64 content, content
\* that b64decode rejects, or a text.
Unasked == [kind |-> "unasked", text |-> NoText]
BlobAnswers ==
    { [kind |-> k, text |-> NoText] : k \in {"neterr", "status", "nocontent", "badbase64"} }
        \cup { [kind |-> "ok", text |-> t] : t \in {TextA, TextB} }

\* get_blob_content: the decoded text, or None.
get_blob_content(ans) ==
    IF ans.kind = "ok" THEN [some |-> TRUE, text |-> ans.text]
    ELSE [some |-> FALSE, text |-> NoText]

RECURSIVE SumSeq(_)
SumSeq(q) == IF q = <<>> THEN 0 ELSE q[1] + SumSeq(Tail(q))

\* analyze_source_complexity: the number of lines with ln.strip(), and the
\* scores, none without lizard.
analyze_source_complexity(text, lizard) ==
    [loc |-> Len(SelectSeq(text.lines, LAMBDA ln : ln # "blank")),
     comps |-> IF lizard THEN text.scores ELSE <<>>]

\* round(float(mean(vals)), 4), in ten-thousandths.  No mean of fewer than
\* 32 integers lies halfway between two ten-thousandths.
RoundedMean(vals) == (2 * 10000 * SumSeq(vals) + Len(vals)) \div (2 * Len(vals))

ZeroSnapshot == [lines_of_code |-> 0, avg_complexity |-> 0, files_processed |-> 0]
NoSnapshot == [lines_of_code |-> 0 - 1, avg_complexity |-> 0 - 1, files_processed |-> 0 - 1]

\* A plausible slip: the division truncated.
SnapshotOf_truncating(t) ==
    [lines_of_code |-> t.loc,
     avg_complexity |-> IF t.vals # <<>> THEN (10000 * SumSeq(t.vals)) \div Len(t.vals) ELSE 0,
     files_processed |-> t.files]

\* avg_complexity = float(mean(complexity_vals)) if complexity_vals else 0.0;
\* return {...}; avg_complexity in ten-thousandths.
SnapshotOf(t) ==
    [lines_of_code |-> t.loc,
     avg_complexity |-> IF t.vals # <<>> THEN RoundedMean(t.vals) ELSE 0,
     files_processed |-> t.files]

\* A plausible slip: the totals of an earlier call carried over.
FreshTotals_carried(prev) == prev

\* total_loc = 0; complexity_vals = []; processed_files = 0
FreshTotals(prev) == [loc |-> 0, vals |-> <<>>, files |-> 0]

\* A plausible slip: one entry more than the limit retained.
Retained_one_more(cands, limit) ==
    IF limit # 0 /\ Len(cands) > limit THEN SubSeq(cands, 1, Min(limit + 1, Len(cands)))
    ELSE cands

\* if file_limit and total_candidates > file_limit:
\*     candidates = candidates[:file_limit]
Retained(cands, limit) ==
    IF limit # 0 /\ Len(cands) > limit THEN SubSeq(cands, 1, limit) ELSE cands

\* A plausible slip: a blob without content counted as processed.
Accumulate_counts_failed(t, got, lizard) ==
    IF ~got.some THEN [t EXCEPT !.files = @ + 1]
    ELSE LET a == analyze_source_complexity(got.text, lizard)
         IN  [loc |-> t.loc + a.loc, vals |-> t.vals \o a.comps, files |-> t.files + 1]

\* The body of the loop over candidates after get_blob_content: continue on
\* None; else total_loc += loc, complexity_vals.extend(comps),
\* processed_files += 1.
Accumulate(t, got, lizard) ==
    IF ~got.some THEN t
    ELSE LET a == analyze_source_complexity(got.text, lizard)
         IN  [loc |-> t.loc + a.loc, vals |-> t.vals \o a.comps, files |-> t.files + 1]

-----------------------------------------------------------------------------
(***************************************************************************)
(* compute_metrics_from_commit, called twice for one commit.               *)
(***************************************************************************)
MetricsStart ==
    /\ mpc = "start"
    /\ file_limit \in 0..MaxFileLimit
    /\ have_lizard \in BOOLEAN
    /\ tree_items \in Trees
    /\ blob_answers = [b \in {it.sha : it \in ItemPool} |-> Unasked]
    /\ candidates = <<>>
    /\ idx = 0
    /\ fetched = <<>>
    /\ totals = [loc |-> 0, vals |-> <<>>, files |-> 0]
    /\ snapshot = NoSnapshot
    /\ mcall = 1
    /\ first_snapshot = NoSnapshot

MetricsOff ==
    /\ mpc = "off"
    /\ file_limit = 0
    /\ have_lizard = FALSE
    /\ tree_items = <<>>
    /\ blob_answers = [b \in {it.sha : it \in ItemPool} |-> Unasked]
    /\ candidates = <<>>
    /\ idx = 0
    /\ fetched = <<>>
    /\ totals = [loc |-> 0, vals |-> <<>>, files |-> 0]
    /\ snapshot = NoSnapshot
    /\ mcall = 1
    /\ first_snapshot = NoSnapshot

\* Lines 93-123: the tree, the filter, the two early returns, the limit and
\* the totals set to zero.
FilterTree ==
    /\ mpc = "start"
    /\ LET cands == SelectSeq(tree_items, Qualifies)
       IN  IF tree_items = <<>> \/ cands = <<>>
           THEN /\ snapshot' = ZeroSnapshot
                /\ mpc' = "returned"
                /\ UNCHANGED <<candidates, totals>>
           ELSE /\ candidates' = Retained(cands, file_limit)
                /\ totals' = FreshTotals(totals)
                /\ mpc' = "fetch"
                /\ UNCHANGED snapshot
    /\ idx' = 0
    /\ fetched' = <<>>
    /\ UNCHANGED <<file_limit, have_lizard, tree_items, blob_answers, mcall, first_snapshot>>
    /\ UNCHANGED otherThanMetrics

\* One turn of the loop over candidates: get_blob_content for the next
\* entry and the accumulation.  The remote answers a blob sha the same way
\* each time it is asked.
FetchBlob ==
    /\ mpc = "fetch"
    /\ idx < Len(candidates)
    /\ idx' = idx + 1
    /\ LET item == candidates[idx + 1]
       IN  /\ \E ans \in BlobAnswers :
                /\ blob_answers[item.sha] \in {Unasked, ans}
                /\ blob_answers' = [blob_answers EXCEPT ![item.sha] = ans]
                /\ totals' = Accumulate(totals, get_blob_content(ans), have_lizard)
           /\ fetched' = Append(fetched, item)
    /\ UNCHANGED <<mpc, file_limit, have_lizard, tree_items, candidates, snapshot,
                   mcall, first_snapshot>>
    /\ UNCHANGED otherThanMetrics

\* Lines 137-138, after the loop.
ReturnSnapshot ==
    /\ mpc = "fetch"
    /\ idx = Len(candidates)
    /\ snapshot' = SnapshotOf(totals)
    /\ mpc' = "returned"
    /\ UNCHANGED <<file_limit, have_lizard, tree_items, blob_answers, candidates, idx,
                   fetched, totals, mcall, first_snapshot>>
    /\ UNCHANGED otherThanMetrics

\* The caller keeps the first result and calls again with the same
\* arguments.
CallAgain ==
    /\ mpc = "returned"
    /\ mcall = 1
    /\ first_snapshot' = snapshot
    /\ mcall' = 2
    /\ mpc' = "start"
    /\ snapshot' = NoSnapshot
    /\ UNCHANGED <<file_limit, have_lizard, tree_items, blob_answers, candidates, idx,
                   fetched, totals>>
    /\ UNCHANGED otherThanMetrics

-----------------------------------------------------------------------------
(***************************************************************************)
(* stage_mining_aggregate: the chunks of repositories, the worker threads  *)
(* of each chunk's ThreadPoolExecutor and the analyze_repo task of each    *)
(* repository, as far as the vulnerability cache and the results go.       *)
(***************************************************************************)
LodashName == <<"lodash">>
LeftPadName == <<"left-pad">>
DepNames == {LodashName, LeftPadName}

\* The dependency names analyze_repo looks up for a repository, in order:
\* the removed dependencies of the commits it processes.
LookupLists ==
    {<<>>, <<LodashName>>, <<LeftPadName>>, <<LodashName, LeftPadName>>}

\* The cache file: valid JSON holding a dict, or opened for writing and not
\* yet written, where json.load raises.
FileOf(d) == [valid |-> TRUE, data |-> d]
TruncatedFile == [valid |-> FALSE, data |-> <<>>]

\* load_osv_cache() or {}: the dict in the file, {} when reading raises.
load_osv_cache(f) == IF f.valid THEN f.data ELSE <<>>

NoTask == [st |-> "idle", cache |-> <<>>, k |-> 0, out |-> <<>>]

\* repo_names = [r["repo"] for r in repos]: the names the deps file lists,
\* which is written from the pages of a search and may list a name twice.
RepoNames == {"facebook/react", "vuejs/vue"}

\* The repositories of the current chunk: chunked_iterable(repo_names, chunk_size).
ChunkOf(start, size, n) == (start + 1)..Min(start + size, n)

\* The tasks a worker thread is executing.
Running(t) == {r \in DOMAIN t : t[r].st \in {"work", "saving"}}

MiningStart ==
    /\ spc = "submit"
    /\ sargs \in [workers : 1..2, chunk_size : 1..2]
    /\ \E n \in 1..MaxRepos :
          /\ repo_names \in [1..n -> RepoNames]
          /\ repo_lookups \in [1..n -> LookupLists]
    /\ \A i, j \in DOMAIN repo_names :
          repo_names[i] = repo_names[j] => repo_lookups[i] = repo_lookups[j]
    /\ chunk_start = 0
    /\ task = [r \in 1..Len(repo_lookups) |-> NoTask]
    /\ osv_file \in {FileOf(d) : d \in CacheFiles}
    /\ queried = [nm \in DepNames |-> 0]
    /\ all_candidates = <<>>

MiningOff ==
    /\ spc = "off"
    /\ sargs = [workers |-> 1, chunk_size |-> 1]
    /\ repo_names = <<>>
    /\ repo_lookups = <<>>
    /\ chunk_start = 0
    /\ task = <<>>
    /\ osv_file = FileOf(<<>>)
    /\ queried = [nm \in DepNames |-> 0]
    /\ all_candidates = <<>>

\* The head of the loop over chunks: the executor is created and one
\* analyze_repo task per repository of the chunk is submitted; after the
\* last chunk the stage returns.
SubmitChunk ==
    /\ spc = "submit"
    /\ IF chunk_start >= Len(repo_lookups)
       THEN /\ spc' = "done"
            /\ UNCHANGED task
       ELSE /\ spc' = "collect"
            /\ task' = [r \in DOMAIN task |->
                          IF r \in ChunkOf(chunk_start, sargs.chunk_size, Len(repo_lookups))
                          THEN [NoTask EXCEPT !.st = "queued"] ELSE task[r]]
    /\ UNCHANGED <<sargs, repo_names, repo_lookups, chunk_start, osv_file, queried, all_candidates>>
    /\ UNCHANGED otherThanMining

\* A free worker thread takes the oldest queued task and runs analyze_repo
\* up to the loop over commits: the listing is empty and the call returns
\* [] at once, or the cache is loaded from the file.
BeginTask(r) ==
    /\ spc = "collect"
    /\ task[r].st = "queued"
    /\ \A q \in DOMAIN task : task[q].st = "queued" => r <= q
    /\ Cardinality(Running(task)) < sargs.workers
    /\ \/ /\ repo_lookups[r] = <<>>
          /\ task' = [task EXCEPT ![r].st = "done"]
       \/ task' = [task EXCEPT ![r].st = "work", ![r].cache = load_osv_cache(osv_file)]
    /\ UNCHANGED <<spc, sargs, repo_names, repo_lookups, chunk_start, osv_file, queried, all_candidates>>
    /\ UNCHANGED otherThanMining

\* get_cve_for_package for the next removed dependency of the task, on the
\* task's cache object, and the candidate that carries the result.
LookupStep(r) ==
    /\ task[r].st = "work"
    /\ task[r].k < Len(repo_lookups[r])
    /\ \E ans \in OsvAnswers :
        LET nm == repo_lookups[r][task[r].k + 1]
            g == get_cve_for_package(nm, task[r].cache, ans)
        IN  /\ task' = [task EXCEPT ![r].cache = g.cache,
                                    ![r].k = @ + 1,
                                    ![r].out = Append(@, [repo |-> repo_names[r],
                                                          removed_dep |-> nm,
                                                          cve |-> g.value])]
            /\ queried' = [queried EXCEPT ![nm] = @ + (IF g.queried THEN 1 ELSE 0)]
    /\ UNCHANGED <<spc, sargs, repo_names, repo_lookups, chunk_start, osv_file, all_candidates>>
    /\ UNCHANGED otherThanMining

\* An exception leaves analyze_repo from the loop over commits (the outer
\* try has no except clause): nothing is saved, and the local results is
\* not returned.
RaiseInTask(r) ==
    /\ task[r].st = "work"
    /\ task' = [task EXCEPT ![r].st = "failed"]
    /\ UNCHANGED <<spc, sargs, repo_names, repo_lookups, chunk_start, osv_file, queried, all_candidates>>
    /\ UNCHANGED otherThanMining

\* save_osv_cache(cache): open(OSV_CACHE, "w") empties the file.
SaveBegin(r) ==
    /\ task[r].st = "work"
    /\ task[r].k = Len(repo_lookups[r])
    /\ task' = [task EXCEPT ![r].st = "saving"]
    /\ osv_file' = TruncatedFile
    /\ UNCHANGED <<spc, sargs, repo_names, repo_lookups, chunk_start, queried, all_candidates>>
    /\ UNCHANGED otherThanMining

\* json.dump(cache, f) and the close of the file; return results.
SaveEnd(r) ==
    /\ task[r].st = "saving"
    /\ osv_file' = FileOf(task[r].cache)
    /\ task' = [task EXCEPT ![r].st = "done"]
    /\ UNCHANGED <<spc, sargs, repo_names, repo_lookups, chunk_start, queried, all_candidates>>
    /\ UNCHANGED otherThanMining

\* A plausible slip: what a failed task had gathered is taken as well.
ResultOf_partial(t) == t.out

\* fut.result(): the list analyze_repo returned; for a task that raised the
\* exception is raised again and caught, and nothing is added.
ResultOf(t) == IF t.st = "done" THEN t.out ELSE <<>>

\* for fut in as_completed(futures): the result of a finished task is added
\* to all_candidates; the exception of a failed one is printed.
CollectResult(r) ==
    /\ spc = "collect"
    /\ task[r].st \in {"done", "failed"}
    /\ all_candidates' = all_candidates \o ResultOf(task[r])
    /\ task' = [task EXCEPT ![r].st = IF task[r].st = "done" THEN "collected"
                                      ELSE "collected_failed"]
    /\ UNCHANGED <<spc, sargs, repo_names, repo_lookups, chunk_start, osv_file, queried>>
    /\ UNCHANGED otherThanMining

\* Every future of the chunk has been collected: the executor is left and
\* the loop goes to the next chunk.
FinishChunk ==
    /\ spc = "collect"
    /\ \A r \in ChunkOf(chunk_start, sargs.chunk_size, Len(repo_lookups)) :
        task[r].st \in {"collected", "collected_failed"}
    /\ chunk_start' = chunk_start + sargs.chunk_size
    /\ spc' = "submit"
    /\ UNCHANGED <<sargs, repo_names, repo_lookups, task, osv_file, queried, all_candidates>>
    /\ UNCHANGED otherThanMining

(***************************************************************************)
(* get_metrics_batch: the process(repo) tasks of its executor, as far as   *)
(* the vulnerability cache goes.  Every task works on the one dict         *)
(* shared_cache.  A get_cve_for_package call that misses the cache takes   *)
(* two steps, the test of the cache and the return of the query, and the   *)
(* other worker threads run in between.                                    *)
(***************************************************************************)
\* The value get_cve_for_package computes from what the service answers.
OsvResult(ans) ==
    IF ans.ok THEN [count |-> Len(ans.vulns), ids |-> ans.vulns]
    ELSE [count |-> 0, ids |-> <<>>]

\* max_workers = min(workers or 4, max(1, len(repos)))
MaxWorkersOf(workers, n) == Min(IF workers = 0 THEN 4 ELSE workers, Max(1, n))

\* fails: the names whose query by this task failed (kept for the
\* properties; the code has no such record).
NoProc == [st |-> "queued", k |-> 0, got |-> <<>>, fails |-> {}]

\* The tasks a worker thread is executing.
Busy(p) == {r \in DOMAIN p : p[r].st \in {"test", "post"}}

\* The counts of the values a task received, for vulnerable_deps.
CountsOf(got) == [i \in 1..Len(got) |-> got[i].count]

\* The state when the executor has been created and every process(repo)
\* submitted: shared_cache = load_osv_cache().
BatchStart ==
    /\ bpc = "run"
    /\ \E n \in 1..MaxBatchRepos :
          /\ repo_deps \in [1..n -> LookupLists]
          /\ \E w \in 0..2 : bworkers = MaxWorkersOf(w, n)
    /\ bfile \in {FileOf(d) : d \in CacheFiles}
    /\ shared_cache = load_osv_cache(bfile)
    /\ proc = [r \in 1..Len(repo_deps) |-> NoProc]
    /\ bresults = <<>>

BatchOff ==
    /\ bpc = "off"
    /\ bworkers = 1
    /\ repo_deps = <<>>
    /\ shared_cache = <<>>
    /\ proc = <<>>
    /\ bresults = <<>>
    /\ bfile = FileOf(<<>>)

\* A free worker thread takes the oldest queued task: process(repo) up to
\* the loop over deps_agg in compute_metrics_for_repo.
StartProcess(r) ==
    /\ bpc = "run"
    /\ proc[r].st = "queued"
    /\ \A q \in DOMAIN proc : proc[q].st = "queued" => r <= q
    /\ Cardinality(Busy(proc)) < bworkers
    /\ proc' = [proc EXCEPT ![r].st = "test"]
    /\ UNCHANGED <<bpc, bworkers, repo_deps, shared_cache, bresults, bfile>>
    /\ UNCHANGED otherThanBatch

\* get_cve_for_package(dep, cache=cache) up to the request: a cached name
\* returns its value, another one goes on to s.post.
TestCache(r) ==
    /\ proc[r].st = "test"
    /\ proc[r].k < Len(repo_deps[r])
    /\ LET nm == repo_deps[r][proc[r].k + 1]
       IN  IF DictHas(shared_cache, nm)
           THEN proc' = [proc EXCEPT ![r].k = @ + 1,
                                     ![r].got = Append(@, DictGet(shared_cache, nm))]
           ELSE proc' = [proc EXCEPT ![r].st = "post"]
    /\ UNCHANGED <<bpc, bworkers, repo_deps, shared_cache, bresults, bfile>>
    /\ UNCHANGED otherThanBatch

\* s.post returns or raises: the result is written to the cache and
\* returned.
PostReturns(r) ==
    /\ proc[r].st = "post"
    /\ \E ans \in OsvAnswers :
        LET nm == repo_deps[r][proc[r].k + 1]
        IN  /\ shared_cache' = DictSet(shared_cache, nm, OsvResult(ans))
            /\ proc' = [proc EXCEPT ![r].st = "test", ![r].k = @ + 1,
                                    ![r].got = Append(@, OsvResult(ans)),
                                    ![r].fails = IF ans.ok THEN @ ELSE @ \cup {nm}]
    /\ UNCHANGED <<bpc, bworkers, repo_deps, bresults, bfile>>
    /\ UNCHANGED otherThanBatch

\* The loop over deps_agg is over: process returns the metrics and the main
\* thread appends them to results.
FinishProcess(r) ==
    /\ proc[r].st = "test"
    /\ proc[r].k = Len(repo_deps[r])
    /\ proc' = [proc EXCEPT ![r].st = "done"]
    /\ bresults' = Append(bresults, [repo |-> r,
                                     vulnerable_deps |-> SumSeq(CountsOf(proc[r].got))])
    /\ UNCHANGED <<bpc, bworkers, repo_deps, shared_cache, bfile>>
    /\ UNCHANGED otherThanBatch

\* Every future is done: save_osv_cache(shared_cache); return results.
SaveShared ==
    /\ bpc = "run"
    /\ \A r \in DOMAIN proc : proc[r].st = "done"
    /\ bfile' = FileOf(shared_cache)
    /\ bpc' = "returned"
    /\ UNCHANGED <<bworkers, repo_deps, shared_cache, proc, bresults>>
    /\ UNCHANGED otherThanBatch

(***************************************************************************)
(* graphql_fetch_package_json_batch.  A repository name is the sequence of *)
(* its pieces, "/" being a piece of its own.  The value None is NoneValue. *)
(***************************************************************************)
ExpressName == <<"expressjs", "/", "express">>
LodashRepo == <<"lodash", "/", "lodash">>
BareName == <<"express">>
FullNames == {ExpressName, LodashRepo, BareName}

\* owner, name = full.split("/", 1): the pieces before and after the first
\* "/"; without one the unpacking raises.
SplitOnce(full) ==
    IF \E i \in 1..Len(full) : full[i] = "/"
    THEN LET i == CHOOSE j \in 1..Len(full) :
                      full[j] = "/" /\ \A h \in 1..(j - 1) : full[h] # "/"
         IN  [ok |-> TRUE, owner |-> SubSeq(full, 1, i - 1),
              name |-> SubSeq(full, i + 1, Len(full))]
    ELSE [ok |-> FALSE, owner |-> <<>>, name |-> <<>>]

\* The text of HEAD:package.json, and json.loads of it.
ValidText == <<"{", "name", "}">>
BrokenText == <<"{", "name">>
NoneValue == [kind |-> "none", keys |-> <<>>]
json_loads(text) ==
    IF text = ValidText THEN [ok |-> TRUE, value |-> [kind |-> "dict", keys |-> <<"name">>]]
    ELSE [ok |-> FALSE, value |-> NoneValue]

\* What data holds under one alias: null for the repository, a repository
\* without the object, an object that is not a blob with text, or a text.
AliasAnswers ==
    {[repo |-> FALSE, object |-> FALSE, text |-> <<>>],
     [repo |-> TRUE, object |-> FALSE, text |-> <<>>],
     [repo |-> TRUE, object |-> TRUE, text |-> <<>>],
     [repo |-> TRUE, object |-> TRUE, text |-> BrokenText],
     [repo |-> TRUE, object |-> TRUE, text |-> ValidText]}

\* What the request for a block of n names brings: request_with_backoff
\* raises, a response with another status than 200, a body that is not
\* JSON, a body without data, or data with an answer per place of the block.
NoReply == [kind |-> "none", data |-> <<>>]
RepliesFor(n) ==
    {[kind |-> k, data |-> <<>>] : k \in {"raised", "status", "badjson", "nodata"}}
    \cup {[kind |-> "data", data |-> a] : a \in [1..n -> AliasAnswers]}

\* A plausible slip: the block is one name long whatever the batch size.
BlockAt_single(names, i, b) == SubSeq(names, i + 1, Min(i + 1, Len(names)))

\* block = repo_full_names[i:i+batch_size]
BlockAt(names, i, b) == SubSeq(names, i + 1, Min(i + b, Len(names)))

\* The value of out[full] for an alias of the query, from the answer under
\* that alias.
ValueOf(ans) ==
    IF ans.repo /\ ans.object /\ ans.text # <<>>
    THEN json_loads(ans.text).value
    ELSE NoneValue

RECURSIVE SetAll(_, _, _)
\* out[full] = v for every full of names.
SetAll(out, names, v) ==
    IF names = <<>> THEN out
    ELSE SetAll(DictSet(out, names[1], v), Tail(names), v)

\* A plausible slip: a name that does not split is passed over without an
\* entry.
MarkMalformed_skipped(out, block) == out

RECURSIVE MarkMalformed(_, _)
\* The loop that builds the query: out[full] = None for a name that does
\* not split.
MarkMalformed(out, block) ==
    IF block = <<>> THEN out
    ELSE MarkMalformed(IF SplitOnce(block[1]).ok THEN out
                       ELSE DictSet(out, block[1], NoneValue), Tail(block))

RECURSIVE FillFromData(_, _, _, _)
\* for alias, full in alias_map.items(): the names that split, in the order
\* of the block, place p having the alias r(p-1).
FillFromData(out, block, data, p) ==
    IF p > Len(block) THEN out
    ELSE FillFromData(IF SplitOnce(block[p]).ok
                      THEN DictSet(out, block[p],
                                   IF data = <<>> THEN NoneValue ELSE ValueOf(data[p]))
                      ELSE out,
                      block, data, p + 1)

\* out after one round of the loop over blocks.
BlockResult(out, block, reply) ==
    LET marked == MarkMalformed(out, block)
    IN  IF reply.kind \in {"raised", "badjson"}
        THEN SetAll(marked, block, NoneValue)
        ELSE FillFromData(marked, block, reply.data, 1)

GraphqlStart ==
    /\ gpc = "block"
    /\ \E n \in 0..MaxNames : gnames \in [1..n -> FullNames]
    /\ batch_size \in 1..MaxBatch
    /\ gi = 0
    /\ gout = <<>>
    /\ greply = NoReply
    /\ gblocks = <<>>

GraphqlOff ==
    /\ gpc = "off"
    /\ gnames = <<>>
    /\ batch_size = 1
    /\ gi = 0
    /\ gout = <<>>
    /\ greply = NoReply
    /\ gblocks = <<>>

\* One round of for i in range(0, len(repo_full_names), batch_size): the
\* query for the block, one call of request_with_backoff, the entries of
\* the block.
FetchBlock ==
    /\ gpc = "block"
    /\ gi < Len(gnames)
    /\ LET block == BlockAt(gnames, gi, batch_size)
       IN  /\ gblocks' = Append(gblocks, block)
           /\ \E reply \in RepliesFor(Len(block)) :
                 /\ greply' = reply
                 /\ gout' = BlockResult(gout, block, reply)
    /\ gi' = gi + batch_size
    /\ UNCHANGED <<gpc, gnames, batch_size>>
    /\ UNCHANGED otherThanGraphql

\* The range is used up: return out.
ReturnOut ==
    /\ gpc = "block"
    /\ gi >= Len(gnames)
    /\ gpc' = "returned"
    /\ UNCHANGED <<gnames, batch_size, gi, gout, greply, gblocks>>
    /\ UNCHANGED otherThanGraphql

(***************************************************************************)
(* analyze_contents of compute_js_metrics.py, the keyword heuristic.  A    *)
(* source is the sequence of its tokens, the line break being a token.     *)
(***************************************************************************)
\* FUNCTION_RE and KEYWORDS_RE with re.IGNORECASE: the tokens they match.
\* The word boundaries keep them from matching inside a longer word.
FUNCTION_TOKENS == {"function", "Function", "=>"}
KEYWORD_TOKENS == {"if", "IF", "for", "while", "case", "catch", "&&", "||"}

\* len(RE.findall(src)) for a pattern that matches the tokens of toks.
CountIn(src, toks) == Cardinality({i \in 1..Len(src) : src[i] \in toks})

\* len(src.splitlines()) of a source that is not empty.
LineCount(src) ==
    CountIn(src, {Newline}) + (IF src[Len(src)] = Newline THEN 0 ELSE 1)

SrcFunction == <<"function", "if", Newline, "while">>
SrcKeywords == <<"IF", "&&", Newline>>
SrcArrows == <<"=>", Newline, "Function">>
SrcPlain == <<"iffy", Newline, "x">>
Sources == {<<>>, SrcFunction, SrcKeywords, SrcArrows, SrcPlain}

\* A plausible slip: a file without function tokens adds no function.
FileFunctions_no_implicit(functions_count, keywords_count) == functions_count

\* What a file adds to total_functions.
FileFunctions(functions_count, keywords_count) ==
    IF functions_count = 0 /\ keywords_count > 0 THEN 1 ELSE functions_count

\* round(float(a / b), 4) in ten-thousandths, a tie going to the even one.
RoundedRatio(a, b) ==
    LET q == (10000 * a) \div b
        rest == (10000 * a) % b
    IN  IF 2 * rest > b \/ (2 * rest = b /\ q % 2 = 1) THEN q + 1 ELSE q

NoHeurTotals == [loc |-> 0, functions |-> 0, contrib |-> 0]
NoHeurResult == [lines_of_code |-> 0 - 1, avg_complexity |-> 0 - 1]

HeurStart ==
    /\ hpc = "files"
    /\ \E n \in 0..MaxFiles : contents \in [1..n -> Sources]
    /\ hi = 0
    /\ htotals = NoHeurTotals
    /\ hresult = NoHeurResult

HeurOff ==
    /\ hpc = "off"
    /\ contents = <<>>
    /\ hi = 0
    /\ htotals = NoHeurTotals
    /\ hresult = NoHeurResult

\* One round of for file in contents.
AnalyzeFile ==
    /\ hpc = "files"
    /\ hi < Len(contents)
    /\ hi' = hi + 1
    /\ LET src == contents[hi + 1]
           functions_count == CountIn(src, FUNCTION_TOKENS)
           keywords_count == CountIn(src, KEYWORD_TOKENS)
       IN  htotals' =
             IF src = <<>> THEN htotals
             ELSE [loc |-> htotals.loc + LineCount(src),
                   functions |-> htotals.functions
                                 + FileFunctions(functions_count, keywords_count),
                   contrib |-> htotals.contrib + functions_count + keywords_count]
    /\ UNCHANGED <<hpc, contents, hresult>>
    /\ UNCHANGED otherThanHeur

\* After the loop: the average and the returned dict.
ReturnHeuristic ==
    /\ hpc = "files"
    /\ hi = Len(contents)
    /\ hresult' = [lines_of_code |-> htotals.loc,
                   avg_complexity |-> IF htotals.functions > 0
                                      THEN RoundedRatio(htotals.contrib, htotals.functions)
                                      ELSE 0]
    /\ hpc' = "returned"
    /\ UNCHANGED <<contents, hi, htotals>>
    /\ UNCHANGED otherThanHeur

-----------------------------------------------------------------------------
(***************************************************************************)
(* The specifications.                                                     *)
(***************************************************************************)
InitReq ==
    /\ ReqStart
    /\ ParseOff /\ RepoOff /\ MetricsOff /\ MiningOff
    /\ BatchOff /\ GraphqlOff /\ HeurOff
NextReq == LoopTest \/ SendRequest \/ Backoff
SpecReq == InitReq /\ [][NextReq]_vars

InitParse ==
    /\ ParseStart
    /\ ReqOff /\ RepoOff /\ MetricsOff /\ MiningOff
    /\ BatchOff /\ GraphqlOff /\ HeurOff
NextParse == ParsePatch \/ FormChanges
SpecParse == InitParse /\ [][NextParse]_vars

InitRepo ==
    /\ RepoStart
    /\ ReqOff /\ ParseOff /\ MetricsOff /\ MiningOff
    /\ BatchOff /\ GraphqlOff /\ HeurOff
NextRepo ==
    \/ ListCommits \/ FilterCommits \/ LimitAndLoad \/ NextCommit \/ FetchDetail
    \/ ExtractDiff \/ MetricsBefore \/ MetricsAfter \/ EmitCandidate \/ SaveAndReturn
SpecRepo == InitRepo /\ [][NextRepo]_vars

InitMetrics ==
    /\ MetricsStart
    /\ ReqOff /\ ParseOff /\ RepoOff /\ MiningOff
    /\ BatchOff /\ GraphqlOff /\ HeurOff
NextMetrics == FilterTree \/ FetchBlob \/ ReturnSnapshot \/ CallAgain
SpecMetrics == InitMetrics /\ [][NextMetrics]_vars

InitMining ==
    /\ MiningStart
    /\ ReqOff /\ ParseOff /\ RepoOff /\ MetricsOff
    /\ BatchOff /\ GraphqlOff /\ HeurOff
NextMining ==
    \/ SubmitChunk
    \/ FinishChunk
    \/ \E r \in DOMAIN task : BeginTask(r)
    \/ \E r \in DOMAIN task : LookupStep(r)
    \/ \E r \in DOMAIN task : RaiseInTask(r)
    \/ \E r \in DOMAIN task : SaveBegin(r)
    \/ \E r \in DOMAIN task : SaveEnd(r)
    \/ \E r \in DOMAIN task : CollectResult(r)
SpecMining == InitMining /\ [][NextMining]_vars

InitBatch ==
    /\ BatchStart
    /\ ReqOff /\ ParseOff /\ RepoOff /\ MetricsOff
    /\ MiningOff /\ GraphqlOff /\ HeurOff
NextBatch ==
    \/ SaveShared
    \/ \E r \in DOMAIN proc : StartProcess(r)
    \/ \E r \in DOMAIN proc : TestCache(r)
    \/ \E r \in DOMAIN proc : PostReturns(r)
    \/ \E r \in DOMAIN proc : FinishProcess(r)
SpecBatch == InitBatch /\ [][NextBatch]_vars

InitGraphql ==
    /\ GraphqlStart
    /\ ReqOff /\ ParseOff /\ RepoOff /\ MetricsOff
    /\ MiningOff /\ BatchOff /\ HeurOff
NextGraphql == FetchBlock \/ ReturnOut
SpecGraphql == InitGraphql /\ [][NextGraphql]_vars

InitHeur ==
    /\ HeurStart
    /\ ReqOff /\ ParseOff /\ RepoOff /\ MetricsOff
    /\ MiningOff /\ BatchOff /\ GraphqlOff
NextHeur == AnalyzeFile \/ ReturnHeuristic
SpecHeur == InitHeur /\ [][NextHeur]_vars

-----------------------------------------------------------------------------
(***************************************************************************)
(* Properties of request_with_backoff.                                     *)
(***************************************************************************)
ReqTerminal == rpc \in {"returned", "raised"}

\* A response the status tests neither return nor retry: raise_for_status
\* raises for it.  The 4xx among them are the statuses of C2.
IsRejected4xx(r) ==
    /\ r.kind = "response"
    /\ r.status >= ErrorFloor /\ r.status < 500
    /\ r.status \notin RetryableStatuses

\* C1: one call makes at most max_retries HTTP attempts and ends (every
\* state that is not an end has a step, and each step advances the attempt
\* or the position within it); it gives up only when max_retries attempts
\* were made, so a network failure or a retryable status with fewer
\* attempts made is followed by another attempt; and a returned response is
\* the first and only response below 400, that of the last attempt.
C1_BoundedRetries ==
    /\ counts.http <= max_retries
    /\ attempt <= max_retries
    /\ counts.http \in {attempt - 1, attempt}
    /\ (~ReqTerminal => ENABLED NextReq)
    /\ (rpc = "test" /\ attempt < max_retries /\ (IsRetryable(resp) \/ resp = NetFailure)
            => ENABLED (LoopTest /\ rpc' = "request"))
    /\ (rpc = "raised" => counts.http = max_retries)
    /\ (rpc = "returned" =>
            /\ outcome = [kind |-> "returned", resp |-> resp, exc |-> NoExc]
            /\ IsSuccess(resp)
            /\ counts.ok = 1
            /\ counts.http = attempt)
    /\ (rpc # "returned" => counts.ok = 0 /\ outcome.kind # "returned")

\* C1 witness: a response returned by the last allowed attempt of a call
\* with the default limit, after a retryable status and a network failure.
C1_Witness ==
    /\ rpc = "returned"
    /\ max_retries = DefaultMaxRetries
    /\ counts.http = DefaultMaxRetries
    /\ last_exc.kind \in {"status", "net"}
    /\ counts.sleeps = DefaultMaxRetries - 1

\* C2 (as claimed): a 4xx response outside the retryable set ends the call
\* at once: no backoff sleep is made for it and the loop is not re-entered.
C2_RejectedFailsImmediately ==
    IsRejected4xx(resp) => (slept = NoSleep /\ rpc # "test")

SleptOnIntRetryAfter ==
    /\ slept # NoSleep
    /\ IsRetryable(resp)
    /\ resp.retry_after.k = "int"

\* C4 (as claimed): for a retryable response with an integer Retry-After n
\* the sleep is exactly n + 1 seconds, whatever the attempt and the
\* X-RateLimit-* headers.
C4_RetryAfterAnyInteger ==
    SleptOnIntRetryAfter =>
        slept = [rule |-> "retry_after", secs |-> resp.retry_after.v + 1,
                 tenths |-> 0, now |-> 0]

\* C4 (amended): the same for every integer n >= -1, that is, whenever
\* n + 1 is a length time.sleep accepts.
C4_RetryAfterPlusOne ==
    (SleptOnIntRetryAfter /\ resp.retry_after.v >= 0 - 1) =>
        slept = [rule |-> "retry_after", secs |-> resp.retry_after.v + 1,
                 tenths |-> 0, now |-> 0]

\* C4 witness: Retry-After: 5 on a later attempt, with the rate-limit
\* headers that would otherwise select the reset rule: 6 seconds.
C4_Witness ==
    /\ SleptOnIntRetryAfter
    /\ attempt >= 2
    /\ resp.retry_after = IntHdr(5)
    /\ RateLimitApplies(resp)
    /\ slept.secs = 6

\* The state right after the backoff sleep of the current attempt.
JustSlept == rpc = "test" /\ slept.rule # "none"

\* The response _sleep_backoff was given has no Retry-After header that
\* int() accepts, X-RateLimit-Remaining "0" and an integer X-RateLimit-Reset.
RateLimitedResponse ==
    /\ IsRetryable(resp)
    /\ resp.retry_after.k # "int"
    /\ resp.remaining.k = "int" /\ resp.remaining.v = 0
    /\ resp.reset.k = "int"

\* C25: for such a response the one sleep of the backoff is
\* max(0, r - now + 2) seconds with no jitter: it ends at r + 2 when that is
\* ahead, is zero when r + 2 is not ahead, and is never negative.
C25_SleepsUntilResetPlusTwo ==
    (JustSlept /\ RateLimitedResponse) =>
        /\ slept.rule = "reset"
        /\ slept.tenths = 0
        /\ slept.secs >= 0
        /\ resp.reset.v + 2 >= slept.now => slept.now + slept.secs = resp.reset.v + 2
        /\ resp.reset.v + 2 <= slept.now => slept.secs = 0

\* A rate-limited response whose reset epoch plus two is in the past.
C25_Witness ==
    /\ JustSlept
    /\ RateLimitedResponse
    /\ resp.reset.v + 2 < slept.now
    /\ slept.secs = 0

\* Neither header rule applies to the sleep of the current attempt: no
\* response was passed (a network failure, an HTTPError), or the response
\* has no integer Retry-After and not both Remaining "0" and an integer
\* Reset.
NoHeaderRule ==
    \/ ~IsRetryable(resp)
    \/ /\ resp.retry_after.k # "int"
       /\ ~(resp.remaining.k = "int" /\ resp.remaining.v = 0 /\ resp.reset.k = "int")

\* C26: then the sleep after the k-th attempt is min(60, 2^k) seconds plus
\* a jitter of 0.5 to 2.0 seconds: 2 after the first attempt, not below the
\* base of an earlier attempt, at most 60, the whole sleep at most 62.
C26_ExponentialBackoffWithJitter ==
    (JustSlept /\ NoHeaderRule) =>
        /\ slept.rule = "exp"
        /\ slept.secs = IF Pow2(attempt) <= 60 THEN Pow2(attempt) ELSE 60
        /\ attempt = 1 => slept.secs = 2
        /\ \A k \in 1..attempt :
              (IF Pow2(k) <= 60 THEN Pow2(k) ELSE 60) <= slept.secs
        /\ slept.secs <= 60
        /\ slept.tenths >= 5 /\ slept.tenths <= 20
        /\ 10 * slept.secs + slept.tenths <= 620

\* The sixth attempt of a call ended in a network failure: the base is at
\* its cap.
C26_Witness ==
    /\ JustSlept
    /\ resp = NetFailure
    /\ attempt = 6
    /\ slept.rule = "exp"
    /\ slept.secs = 60

-----------------------------------------------------------------------------
(***************************************************************************)
(* Properties of parse_removed_added_from_patch and of the dependency      *)
(* changes analyze_repo forms from its maps.                               *)
(***************************************************************************)
RECURSIVE SplitLines(_)
\* The lines of a text, without their line breaks.
SplitLines(s) ==
    LET n == CHOOSE k \in 1..(Len(s) + 1) :
                 /\ (k <= Len(s) => s[k] = Newline)
                 /\ \A j \in 1..(k - 1) : s[j] # Newline
    IN  IF n > Len(s) THEN <<s>>
        ELSE <<SubSeq(s, 1, n - 1)>> \o SplitLines(SubSeq(s, n + 1, Len(s)))

\* Line i of the text is a '-' line of the shape "<name>": "<version>".
IsRemovalLine(ls, i) == MatchAt(ls[i], 1).ok /\ MatchAt(ls[i], 1).op = "-"

\* The removed-map read line by line: for each name on a '-' line of the
\* shape, the version of its last such line.
LinewiseRemoved(s) ==
    LET ls == SplitLines(s)
    IN  { <<MatchAt(ls[i], 1).name, MatchAt(ls[i], 1).ver>> :
            i \in { i \in 1..Len(ls) :
                      /\ IsRemovalLine(ls, i)
                      /\ \A j \in (i + 1)..Len(ls) :
                            ~(IsRemovalLine(ls, j)
                              /\ MatchAt(ls[j], 1).name = MatchAt(ls[i], 1).name) } }

DictItems(d) == {d[i] : i \in 1..Len(d)}

\* C5 (as claimed): the keys of the removed-map are exactly the names on the
\* '-' lines of the shape "<name>": "<version>", each once, each with the
\* version of its last such line; '+' lines and other lines add nothing.
C5_RemovedMapIsLinewise ==
    ppc \in {"parsed", "formed"} =>
        /\ DictItems(removed) = LinewiseRemoved(patch_text)
        /\ Cardinality(DictKeys(removed)) = Len(removed)

\* C6: for one manifest patch there is exactly one dependency change per
\* name of the removed-map and none for any other name; it carries the
\* removed-map version as versions_before and the added-map version of the
\* same name, if there is one, as versions_after.
C6_OneChangePerRemovedName ==
    ppc = "formed" =>
        /\ Len(changes) = Cardinality(DictKeys(removed))
        /\ \A k \in DictKeys(removed) :
              Cardinality({i \in 1..Len(changes) : changes[i].name = k}) = 1
        /\ \A i \in 1..Len(changes) :
              /\ changes[i].name \in DictKeys(removed)
              /\ changes[i].versions_before = <<DictGet(removed, changes[i].name)>>
              /\ changes[i].versions_after =
                    (IF changes[i].name \in DictKeys(added)
                     THEN <<DictGet(added, changes[i].name)>> ELSE <<>>)
              /\ changes[i].file = fname

\* C6 witness: the lone line -  "lodash": "4.17.10" gives one change,
\* before 4.17.10, after absent.
C6_Witness ==
    /\ ppc = "formed"
    /\ patch_text = DepLine("-", "lodash", "4.17.10")
    /\ changes = << [name |-> <<"lodash">>, versions_before |-> << <<"4.17.10">> >>,
                     versions_after |-> <<>>, file |-> fname] >>

-----------------------------------------------------------------------------
(***************************************************************************)
(* Properties of analyze_repo.  A candidate is appended while its commit   *)
(* is the current one and is never changed afterwards, so a statement      *)
(* about a record and its commit's detail is checked in the states where   *)
(* that commit is current.                                                 *)
(***************************************************************************)
\* The detail held is the detail of the commit the loop is at.
DetailIsCurrent == ci > 0 /\ detail.sha = commits[ci].sha

\* The records appended for the commit the loop is at.
CurrentRecords == SelectSeq(results, LAMBDA r : ci > 0 /\ r.commit = commits[ci].sha)

\* The last path component of f is package.json, in any letter case: the
\* last piece is the whole component.
NamedPackageJson(f) ==
    /\ IsManifestPath(f)
    /\ Len(f) = 1 \/ f[Len(f) - 1] \in DirPrefixes

\* The removed-map of the patch of the file named f in the detail.
RemovedMapOfFile(f) ==
    LET i == CHOOSE j \in 1..Len(detail.files) : detail.files[j].filename = f
    IN  parse_removed_added_from_patch(detail.files[i].patch)[1]

\* C7: every candidate record belongs to a commit whose detail lists a
\* changed file named package.json (in any directory) and whose removed list
\* is not empty, and the record's removed_dep is a name of the removed-map of
\* the file the record names.
C7_RecordsOnlyForManifestCommits ==
    (DetailIsCurrent /\ CurrentRecords # <<>>) =>
        /\ \E i \in 1..Len(detail.files) : NamedPackageJson(detail.files[i].filename)
        /\ removed_list # <<>>
        /\ \A k \in 1..Len(CurrentRecords) :
            LET r == CurrentRecords[k]
            IN  /\ \E i \in 1..Len(detail.files) : detail.files[i].filename = r.file
                /\ DictHas(RemovedMapOfFile(r.file), r.removed_dep)

\* C8: with a positive cap the number of records never exceeds the cap, and
\* once the cap is reached no further commit is taken and no further detail,
\* tree, blob or vulnerability request is made.
C8_CapBoundsRecordsAndWork ==
    /\ [](args.cap > 0 => Len(results) <= args.cap)
    /\ [][(args.cap > 0 /\ Len(results) >= args.cap) => (reqs' = reqs /\ ci' <= ci)]_vars

\* The cap of 1 was reached by the first of two removals of the first of two
\* commits, and the loop over the removals was left.
C8_Witness ==
    /\ apc = "loop"
    /\ args.cap = 1
    /\ Len(results) = 1
    /\ Len(removed_list) = 2
    /\ ci = 1
    /\ Len(commits) = 2
    /\ reqs.detail = 1

\* The detail of the current commit lists exactly two changed files, both
\* named package.json, each patch removing one dependency, the two differing.
TwoManifestsCase ==
    /\ DetailIsCurrent
    /\ Len(detail.files) = 2
    /\ \A i \in 1..2 :
        /\ NamedPackageJson(detail.files[i].filename)
        /\ Len(parse_removed_added_from_patch(detail.files[i].patch)[1]) = 1
    /\ detail.files[1].filename # detail.files[2].filename
    /\ DictKeys(parse_removed_added_from_patch(detail.files[1].patch)[1])
         # DictKeys(parse_removed_added_from_patch(detail.files[2].patch)[1])

\* The loop over the records of the current commit has ended.
CommitProcessed == DetailIsCurrent /\ apc = "loop"

\* Two records of the current commit, sharing commit and parent and
\* differing in removed_dep and file.
TwoRecordsEmitted ==
    /\ Len(CurrentRecords) = 2
    /\ CurrentRecords[1].commit = CurrentRecords[2].commit
    /\ CurrentRecords[1].parent = parents[1]
    /\ CurrentRecords[2].parent = parents[1]
    /\ CurrentRecords[1].removed_dep # CurrentRecords[2].removed_dep
    /\ CurrentRecords[1].file # CurrentRecords[2].file

\* C9 as stated: a commit with two changed manifest files, each removing one
\* distinct dependency, yields two records.
C9_TwoManifestsTwoRecords ==
    (TwoManifestsCase /\ CommitProcessed) => TwoRecordsEmitted

\* The cap leaves room for two more records when the current commit is
\* reached: it is unset, or exceeds the records of the earlier commits by two.
RoomForTwo ==
    \/ args.cap = 0
    \/ (Len(results) - Len(CurrentRecords)) + 2 <= args.cap

\* C9: a commit with two changed manifest files, each removing one distinct
\* dependency, yields two records sharing commit and parent and differing in
\* removed_dep and file, provided max_candidates_per_repo is unset or leaves
\* room for two more records.
C9_TwoManifestsTwoRecordsWithinCap ==
    (TwoManifestsCase /\ CommitProcessed /\ RoomForTwo) => TwoRecordsEmitted

\* Two manifests of one commit gave two records under a cap of 2.
C9_Witness ==
    /\ TwoManifestsCase
    /\ CommitProcessed
    /\ args.cap = 2
    /\ TwoRecordsEmitted
    /\ Len(results) = 2

\* The date parses to a time before the cutoff.
Stale(d, cutoff) == d.k \in {"naive", "aware"} /\ d.t < cutoff

\* C10: with days_back set, no commit whose author date parses to a time
\* before now - days_back gets a detail fetch or yields a record.
C10_NoStaleCommitProcessed ==
    args.days_back # 0 =>
        /\ DetailIsCurrent => ~Stale(commits[ci].date, Cutoff(args.days_back))
        /\ \A k \in 1..Len(results) : \A i \in 1..Len(commits) :
            commits[i].sha = results[k].commit
                => ~Stale(commits[i].date, Cutoff(args.days_back))

\* C11: a commit with an empty parents list is skipped: while it is the
\* current commit the loop stays at its head, so no detail is fetched, no
\* metrics are computed and no record is appended for it; and every record
\* of a commit carries the first parent of that commit.
C11_ParentlessCommitSkipped ==
    /\ (ci > 0 /\ parents = <<>>) =>
          /\ apc = "loop"
          /\ ~DetailIsCurrent
          /\ CurrentRecords = <<>>
    /\ \A k \in 1..Len(CurrentRecords) :
          parents # <<>> /\ CurrentRecords[k].parent = parents[1]

\* The first commit had no parents and cost no request; the second, a merge
\* commit, gave a record with its first parent.
C11_Witness ==
    /\ ci = 2
    /\ parents = <<"p1", "p2">>
    /\ Len(results) = 1
    /\ results[1].commit = commits[2].sha
    /\ results[1].parent = "p1"
    /\ reqs.detail = 1
    /\ reqs.metrics = 2

\* The entry a record carries for a snapshot: zeros if computing it raised,
\* the values computed otherwise.
ExpectedEntry(which, computed) ==
    IF which \in metrics.raised THEN ZeroEntry ELSE Entry(computed)

\* C12: for a commit with a non-empty removed list, a snapshot whose
\* computation raised is replaced by zeros and the other snapshot keeps its
\* computed values in every record of the commit, and the commit still
\* yields a record.
C12_FailedSnapshotZeroedOnly ==
    (DetailIsCurrent /\ removed_list # <<>> /\ apc \in {"records", "loop"}) =>
        /\ apc = "loop" => CurrentRecords # <<>>
        /\ \A k \in 1..Len(CurrentRecords) :
            /\ CurrentRecords[k].metrics_before = ExpectedEntry("before", SnapshotBefore)
            /\ CurrentRecords[k].metrics_after = ExpectedEntry("after", SnapshotAfter)

\* Computing metrics_after raised, metrics_before did not; the record
\* carries the computed before-snapshot and zeros after.
C12_Witness ==
    /\ CommitProcessed
    /\ metrics.raised = {"after"}
    /\ CurrentRecords # <<>>
    /\ CurrentRecords[1].metrics_before = Entry(SnapshotBefore)
    /\ CurrentRecords[1].metrics_after = ZeroEntry

\* The commits that have a record in results.
CommitsWithRecords == {results[i].commit : i \in 1..Len(results)}

\* The steps of one commit follow each other in the order detail, extract,
\* metrics of the parent, metrics of the commit, records.
StepOrder ==
    /\ apc = "detail" => apc' \in {"loop", "extract"}
    /\ apc = "extract" => apc' \in {"loop", "before"}
    /\ apc = "before" => apc' = "after"
    /\ apc = "after" => apc' = "records"
    /\ apc = "records" => apc' \in {"records", "loop"}

\* C28: for each commit the diff is extracted, then the metrics of the
\* parent and of the commit are computed, then the vulnerabilities are
\* looked up and the candidates emitted.  A commit whose removed list is
\* empty causes no metrics request and no lookup.  The two snapshots are
\* computed once per commit and every record of the commit carries them.
C28_StepsOfACommit ==
    /\ [][/\ StepOrder
          /\ reqs'.metrics # reqs.metrics => apc \in {"before", "after"}
          /\ (reqs'.osv # reqs.osv \/ results' # results) => apc = "records"
          /\ (apc = "extract" /\ removed_list' = <<>>) =>
                (apc' = "loop" /\ reqs' = reqs /\ results' = results)
          /\ apc = "records" => (metrics' = metrics /\ reqs'.metrics = reqs.metrics)]_vars
    /\ [](apc \in {"before", "after", "records"} => removed_list # <<>>)
    /\ []((DetailIsCurrent /\ apc \in {"records", "loop"}) =>
            \A i \in 1..Len(CurrentRecords) :
                /\ CurrentRecords[i].metrics_before = metrics.before
                /\ CurrentRecords[i].metrics_after = metrics.after)
    /\ [](apc \in {"loop", "done"} =>
            reqs.metrics = 2 * Cardinality(CommitsWithRecords))

\* A commit with two removed dependencies has its two records after two
\* metrics calls.
C28_Witness ==
    /\ apc = "loop"
    /\ DetailIsCurrent
    /\ Len(removed_list) = 2
    /\ Len(CurrentRecords) = 2
    /\ reqs.metrics = 2
    /\ metrics.raised = {}
    /\ CurrentRecords[1].metrics_before = CurrentRecords[2].metrics_before
    /\ CurrentRecords[1].metrics_after = Entry(SnapshotAfter)

-----------------------------------------------------------------------------
(***************************************************************************)
(* Properties of compute_metrics_from_commit.                              *)
(***************************************************************************)
\* The source-blob filter in words: a blob, a recognized suffix in any
\* letter case, no exclusion substring in the path, at most 1 MiB reported.
PassesSourceFilter(item) ==
    /\ item.type = "blob"
    /\ \E x \in SRC_EXTS \cup {".TS"} : item.path[Len(item.path)] = x
    /\ \A i \in 1..Len(item.path) : item.path[i] \notin SKIP_PATH_PARTS
    /\ item.size <= 1024 * 1024

\* The entries of the tree that pass the filter, in tree order.
QualifyingBlobs == SelectSeq(tree_items, PassesSourceFilter)

\* C13: when the tree is empty or holds no entry passing the source-blob
\* filter, the call returns the zero snapshot and fetches no blob.
C13_NoSourceBlobsZeroSnapshot ==
    (mpc = "returned" /\ QualifyingBlobs = <<>>) =>
        (snapshot = ZeroSnapshot /\ fetched = <<>>)

\* A tree of three entries, none passing the filter, gave the zero snapshot.
C13_Witness ==
    /\ mpc = "returned"
    /\ Len(tree_items) = 3
    /\ QualifyingBlobs = <<>>
    /\ snapshot = ZeroSnapshot
    /\ fetched = <<>>

\* The get_blob_content calls of the current call are leading entries of the
\* filtered list, in tree order.
FetchedIsPrefix ==
    /\ Len(fetched) <= Len(QualifyingBlobs)
    /\ fetched = SubSeq(QualifyingBlobs, 1, Len(fetched))

\* C14 as stated: for every file_limit the number of get_blob_content calls
\* never exceeds min(file_limit, qualifying_blob_count).
C14_FetchesWithinAnyLimit ==
    mpc \in {"fetch", "returned"} =>
        /\ Len(fetched) <= Min(file_limit, Len(QualifyingBlobs))
        /\ FetchedIsPrefix

\* C14: for every positive file_limit the number of get_blob_content calls
\* never exceeds min(file_limit, qualifying_blob_count); for every
\* file_limit the blobs fetched are the leading entries of the filtered list
\* in tree order, each fetched once.
C14_FetchesWithinPositiveLimit ==
    mpc \in {"fetch", "returned"} =>
        /\ file_limit > 0 => Len(fetched) <= Min(file_limit, Len(QualifyingBlobs))
        /\ FetchedIsPrefix

\* Three blobs qualify, the limit is 2, the first two were fetched.
C14_Witness ==
    /\ mpc = "returned"
    /\ file_limit = 2
    /\ Len(QualifyingBlobs) = 3
    /\ fetched = SubSeq(QualifyingBlobs, 1, 2)

\* The fetches of the current call that returned content.
FetchedWithContent ==
    SelectSeq(fetched, LAMBDA item : blob_answers[item.sha].kind = "ok")

\* The number of blobs the call retains.
RetainedCount ==
    IF file_limit > 0 THEN Min(file_limit, Len(QualifyingBlobs)) ELSE Len(QualifyingBlobs)

\* C15: a blob whose fetch returns no content is skipped: the call returns,
\* every retained blob has been fetched, and files_processed is the number
\* of fetches that returned content.
C15_FailedBlobSkipped ==
    /\ mpc = "fetch" => totals.files = Len(FetchedWithContent)
    /\ mpc = "returned" =>
          /\ Len(fetched) = RetainedCount
          /\ snapshot.files_processed = Len(FetchedWithContent)

\* Of three blobs the second failed and the third was still fetched: two
\* files processed.
C15_Witness ==
    /\ mpc = "returned"
    /\ Len(fetched) = 3
    /\ blob_answers[fetched[1].sha].kind = "ok"
    /\ blob_answers[fetched[2].sha].kind = "neterr"
    /\ blob_answers[fetched[3].sha].kind = "ok"
    /\ snapshot.files_processed = 2

RECURSIVE LinesOfCode(_)
\* The sum of the non-blank line counts of a list of fetched blobs.
LinesOfCode(items) ==
    IF items = <<>> THEN 0
    ELSE Cardinality({i \in DOMAIN blob_answers[items[1].sha].text.lines :
                        blob_answers[items[1].sha].text.lines[i] = "code"})
         + LinesOfCode(Tail(items))

RECURSIVE ScoresOf(_)
\* The per-function scores collected over a list of fetched blobs.
ScoresOf(items) ==
    IF items = <<>> THEN <<>>
    ELSE (IF have_lizard THEN blob_answers[items[1].sha].text.scores ELSE <<>>)
         \o ScoresOf(Tail(items))

\* lines_of_code, files_processed, the zero case and the signs.
SnapshotCounts ==
    /\ snapshot.lines_of_code = LinesOfCode(FetchedWithContent)
    /\ snapshot.files_processed = Len(FetchedWithContent)
    /\ snapshot.avg_complexity = 0 <=> ScoresOf(FetchedWithContent) = <<>>
    /\ snapshot.lines_of_code >= 0
    /\ snapshot.files_processed >= 0
    /\ snapshot.avg_complexity >= 0

\* C16 as stated: avg_complexity is the mean of the scores collected.
C16_SnapshotIsExactMean ==
    mpc = "returned" =>
        /\ SnapshotCounts
        /\ LET sc == ScoresOf(FetchedWithContent)
           IN  snapshot.avg_complexity * Len(sc) = 10000 * SumSeq(sc)

\* C16: lines_of_code is the sum of the non-blank line counts of the blobs
\* fetched with content, files_processed their number, avg_complexity the
\* mean of the scores collected rounded to four decimal places, 0.0 exactly
\* when no score was collected; none is negative.
C16_SnapshotIsRoundedMean ==
    mpc = "returned" =>
        /\ SnapshotCounts
        /\ LET sc == ScoresOf(FetchedWithContent)
               d == snapshot.avg_complexity * Len(sc) - 10000 * SumSeq(sc)
           IN  2 * d <= Len(sc) /\ 2 * (0 - d) <= Len(sc)

\* Scores 1, 2, 2 were collected over two blobs: the mean 5/3 is returned
\* as 1.6667; the blobs have 3 non-blank lines.
C16_Witness ==
    /\ mpc = "returned"
    /\ ScoresOf(FetchedWithContent) \in {<<1, 2, 2>>, <<2, 2, 1>>}
    /\ snapshot.avg_complexity = 16667
    /\ snapshot.lines_of_code = 3
    /\ snapshot.files_processed = 2

C27_OnlyQualifyingBlobsFetched ==
    \A i \in 1..Len(fetched) :
        /\ \E j \in 1..Len(tree_items) : tree_items[j] = fetched[i]
        /\ fetched[i].type = "blob"
        /\ PassesSourceFilter(fetched[i])

\* A tree with a blob under node_modules/, a blob above 1 MiB and a .TS
\* blob: the call returned after it fetched the third one alone.
C27_Witness ==
    /\ mpc = "returned"
    /\ Len(tree_items) = 3
    /\ \E j \in 1..3 : tree_items[j].sha = "b4"
    /\ \E j \in 1..3 : tree_items[j].sha = "b5"
    /\ Len(fetched) = 1
    /\ fetched[1].sha = "b2"

-----------------------------------------------------------------------------
(***************************************************************************)
(* Properties of the vulnerability cache in the mining stage.              *)
(***************************************************************************)
\* C18: a get_cve_for_package call for a name that is a key of the cache
\* passed to it returns the cached value, sends no vulnerability query and
\* leaves the cache as it was.
C18_CacheHitNoQuery ==
    [][\A r \in DOMAIN task :
          (/\ task[r].st = "work"
           /\ task'[r].k = task[r].k + 1
           /\ DictHas(task[r].cache, repo_lookups[r][task[r].k + 1]))
          => /\ task'[r].cache = task[r].cache
             /\ queried' = queried
             /\ task'[r].out[Len(task'[r].out)].cve
                  = DictGet(task[r].cache, repo_lookups[r][task[r].k + 1])]_vars

\* A task looked up lodash, which the cache file held: the candidate carries
\* the cached value and no query was sent.
C18_Witness ==
    \E r \in DOMAIN task :
        /\ Len(task[r].out) = 1
        /\ task[r].out[1].removed_dep = LodashName
        /\ task[r].out[1].cve = [count |-> 1, ids |-> <<"CVE-2019-10744">>]
        /\ queried[LodashName] = 0

\* C19: all worker threads of the mining stage work on one cache: the tasks
\* running at one time hold the same entries, and no dependency name is
\* queried a second time in a run.
C19_OneSharedCache ==
    /\ \A r, q \in Running(task) : task[r].cache = task[q].cache
    /\ \A nm \in DepNames : queried[nm] <= 1

\* C20: after a mining pass in which no task failed, the cache file holds an
\* entry for every dependency name a worker looked up during the pass.
C20_PersistedCacheComplete ==
    (spc = "done" /\ \A r \in DOMAIN task : task[r].st = "collected") =>
        /\ osv_file.valid
        /\ \A r \in DOMAIN task : \A i \in 1..Len(repo_lookups[r]) :
              DictHas(osv_file.data, repo_lookups[r][i])

(***************************************************************************)
(* Properties of the worker threads of the mining stage.                   *)
(***************************************************************************)
\* C22: during a mining run at most one analyze_repo task per repository
\* name is in progress at any moment, and a task takes the entries of its
\* repository one after another.
C22_RepositoryMinedSequentially ==
    /\ [](\A r, q \in Running(task) : repo_names[r] = repo_names[q] => r = q)
    /\ [][\A r \in DOMAIN task : task'[r].k \in {task[r].k, task[r].k + 1}]_vars

RECURSIVE ReturnedCount(_, _)
\* The number of records the analyze_repo calls of the first n repositories
\* returned for the name nm.
ReturnedCount(nm, n) ==
    IF n = 0 THEN 0
    ELSE ReturnedCount(nm, n - 1)
         + (IF task[n].st = "collected" /\ repo_names[n] = nm
            THEN Len(task[n].out) ELSE 0)

\* The number of records of the aggregated output that carry the name nm.
AggregatedCount(nm) == Len(SelectSeq(all_candidates, LAMBDA c : c.repo = nm))

\* C23: when analyze_repo raises for a repository the stage still goes
\* through every chunk; the aggregated output holds every record the other
\* analyze_repo calls returned, and nothing of the call that raised.
C23_FailureIsolated ==
    spc = "done" =>
        /\ \A r \in DOMAIN task : task[r].st \in {"collected", "collected_failed"}
        /\ \A r \in DOMAIN task : task[r].st = "collected" =>
              \A i \in 1..Len(task[r].out) :
                  \E j \in 1..Len(all_candidates) : all_candidates[j] = task[r].out[i]
        /\ \A nm \in RepoNames : AggregatedCount(nm) = ReturnedCount(nm, Len(task))

\* A run is over in which the first repository's call raised after it had
\* gathered a record, and the call of the second repository, in the same or
\* the next chunk, returned one.
C23_Witness ==
    /\ spc = "done"
    /\ Len(task) = 2
    /\ repo_names[1] # repo_names[2]
    /\ task[1].st = "collected_failed" /\ Len(task[1].out) = 1
    /\ task[2].st = "collected" /\ Len(task[2].out) = 1
    /\ Len(all_candidates) = 1

(***************************************************************************)
(* Properties of the vulnerability cache in get_metrics_batch.             *)
(***************************************************************************)
\* C21: once a key of the shared cache has been written, no later or
\* concurrent write of a worker thread changes its value.
C21_WrittenValueNeverChanges ==
    [][\A nm \in DepNames :
          DictHas(shared_cache, nm) =>
              /\ DictHas(shared_cache', nm)
              /\ DictGet(shared_cache', nm) = DictGet(shared_cache, nm)]_vars

\* The names for which some task's query has failed and returned.
FailedNames == UNION {proc[r].fails : r \in DOMAIN proc}

\* (0, [])
NoVulns == [count |-> 0, ids |-> <<>>]

\* C31 (as claimed): when a get_cve_for_package call returns, the name is a
\* key of the cache and the cached value is the returned one; a failed
\* query caches and returns (0, []); and a lookup that begins after a query
\* for its name has failed and returned sends no query and returns (0, []).
C31_FailureCachedForGood ==
    [][\A r \in DOMAIN proc :
          proc[r].st \in {"test", "post"} /\ proc[r].k < Len(repo_deps[r]) =>
              LET nm == repo_deps[r][proc[r].k + 1]
              IN  /\ (proc'[r].k = proc[r].k + 1 =>
                        LET v == proc'[r].got[Len(proc'[r].got)]
                        IN  /\ DictHas(shared_cache', nm)
                            /\ DictGet(shared_cache', nm) = v
                            /\ (nm \in proc'[r].fails => v = NoVulns))
                  /\ (proc[r].st = "test" /\ nm \in FailedNames /\ proc'[r] # proc[r] =>
                        /\ proc'[r].st = "test"
                        /\ proc'[r].k = proc[r].k + 1
                        /\ proc'[r].got = Append(proc[r].got, NoVulns)
                        /\ shared_cache' = shared_cache)]_vars

(***************************************************************************)
(* Properties of graphql_fetch_package_json_batch.                         *)
(***************************************************************************)
NamesOf(names) == {names[i] : i \in 1..Len(names)}

\* The last place of the name f in a block; its alias is the one the loop
\* over alias_map reads last.
LastPlace(block, f) ==
    CHOOSE p \in 1..Len(block) :
        block[p] = f /\ \A q \in (p + 1)..Len(block) : block[q] # f

HasSlash(f) == \E i \in 1..Len(f) : f[i] = "/"

\* What the claim lets a name of the block map to after the block's round.
ExpectedValue(block, reply, f) ==
    IF /\ HasSlash(f)
       /\ reply.kind = "data"
       /\ reply.data[LastPlace(block, f)].repo
       /\ reply.data[LastPlace(block, f)].object
       /\ reply.data[LastPlace(block, f)].text = ValidText
    THEN [kind |-> "dict", keys |-> <<"name">>]
    ELSE [kind |-> "none", keys |-> <<>>]

\* C24: the returned map has an entry for every input name.  A round of the
\* loop gives every name of its block the parsed manifest when the name
\* splits, the request brought data and the text under its alias parses,
\* and None otherwise (a name that does not split, a missing repository or
\* object, a text that does not parse, a failed request), and leaves the
\* entries of the other blocks as they were; every block gets its round.
C24_PartialResultsPerName ==
    /\ [](gpc = "returned" =>
            /\ DictKeys(gout) = NamesOf(gnames)
            /\ gi >= Len(gnames))
    /\ [][gi' # gi =>
            LET block == gblocks'[Len(gblocks')]
            IN  /\ \A f \in NamesOf(block) :
                      /\ DictHas(gout', f)
                      /\ DictGet(gout', f) = ExpectedValue(block, greply', f)
                /\ \A f \in FullNames \ NamesOf(block) :
                      /\ DictHas(gout', f) = DictHas(gout, f)
                      /\ DictHas(gout, f) => DictGet(gout', f) = DictGet(gout, f)]_vars

\* The call returned for a name that does not split and two that do, in
\* blocks of two: the first block brought the manifest of express, the
\* request of the second block failed.
C24_Witness ==
    /\ gpc = "returned"
    /\ gnames = <<BareName, ExpressName, LodashRepo>>
    /\ batch_size = 2
    /\ greply.kind = "raised"
    /\ DictGet(gout, BareName).kind = "none"
    /\ DictGet(gout, ExpressName).kind = "dict"
    /\ DictGet(gout, LodashRepo).kind = "none"

RECURSIVE Flatten(_)
Flatten(bs) == IF bs = <<>> THEN <<>> ELSE bs[1] \o Flatten(Tail(bs))

CeilDiv(n, b) == (n + b - 1) \div b

\* C29: for n names and batch size b the request layer is called
\* ceil(n / b) times, once per consecutive block of at most b names.
C29_OneRequestPerBlock ==
    /\ Len(gblocks) <= CeilDiv(Len(gnames), batch_size)
    /\ \A k \in 1..Len(gblocks) : Len(gblocks[k]) \in 1..batch_size
    /\ gpc = "returned" =>
          /\ Len(gblocks) = CeilDiv(Len(gnames), batch_size)
          /\ Flatten(gblocks) = gnames

\* Three names in blocks of two: two requests.
C29_Witness ==
    /\ gpc = "returned"
    /\ Len(gnames) = 3
    /\ batch_size = 2
    /\ Len(gblocks) = 2
    /\ Len(gblocks[1]) = 2

(***************************************************************************)
(* Properties of analyze_contents.                                         *)
(***************************************************************************)
FunctionTokens(src) == CountIn(src, FUNCTION_TOKENS)
Keywords(src) == CountIn(src, KEYWORD_TOKENS)

\* The files of contents that have a source, by their place.
FilesWithSource == {i \in 1..Len(contents) : contents[i] # <<>>}

RECURSIVE SumOfSet(_, _)
\* The sum of f[i] over the places i of S.
SumOfSet(f, S) ==
    IF S = {} THEN 0
    ELSE LET i == CHOOSE j \in S : TRUE IN f[i] + SumOfSet(f, S \ {i})

\* The total contribution and the total function count in the words of the
\* claim.
TotalContribution ==
    SumOfSet([i \in FilesWithSource |->
                 FunctionTokens(contents[i]) + Keywords(contents[i])], FilesWithSource)
TotalFunctionCount ==
    SumOfSet([i \in FilesWithSource |->
                 IF FunctionTokens(contents[i]) = 0 /\ Keywords(contents[i]) >= 1
                 THEN 1 ELSE FunctionTokens(contents[i])], FilesWithSource)

\* C30 as stated: avg_complexity is the total contribution divided by the
\* total function count, 0.0 when that count is 0, and never a non-zero
\* value below 1.  avg_complexity is held in ten-thousandths.
C30_AverageIsExactRatio ==
    hpc = "returned" =>
        /\ htotals.contrib = TotalContribution
        /\ htotals.functions = TotalFunctionCount
        /\ IF TotalFunctionCount = 0
           THEN hresult.avg_complexity = 0
           ELSE hresult.avg_complexity * TotalFunctionCount = 10000 * TotalContribution
        /\ hresult.avg_complexity # 0 => hresult.avg_complexity >= 10000

\* C30, amended: avg_complexity is that ratio rounded to four decimal
\* places.
C30_AverageIsRoundedRatio ==
    hpc = "returned" =>
        /\ htotals.contrib = TotalContribution
        /\ htotals.functions = TotalFunctionCount
        /\ IF TotalFunctionCount = 0
           THEN hresult.avg_complexity = 0
           ELSE /\ 2 * TotalFunctionCount * hresult.avg_complexity
                     <= 2 * 10000 * TotalContribution + TotalFunctionCount
                /\ 2 * TotalFunctionCount * hresult.avg_complexity
                     >= 2 * 10000 * TotalContribution - TotalFunctionCount
        /\ hresult.avg_complexity # 0 => hresult.avg_complexity >= 10000

\* Two files with a function token and two keywords each and one with
\* keywords only: 8 over 3, returned as 2.6667.
C30_Witness ==
    /\ hpc = "returned"
    /\ contents = <<SrcFunction, SrcKeywords, SrcFunction>>
    /\ htotals.functions = 3
    /\ htotals.contrib = 8
    /\ hresult.avg_complexity = 26667

=============================================================================
